---- MODULE Spec2Model ----
(***************************************************************************)
(* The progressive streaming edit session engine of the csChat workbench  *)
(* contribution: ChatEditSessionService (the coordinator), LiveStrategy   *)
(* (the per-document edit strategy) and CSChatEditsDiffDecorations.       *)
(*                                                                         *)
(* A text buffer is a sequence of atoms (an atom stands for one word on a  *)
(* line of its own), an offset range <<s, e>> designates the atoms         *)
(* s+1 .. e, and a replacement text is a sequence of atoms.                *)
(***************************************************************************)
EXTENDS Integers, Sequences, FiniteSets, TLC

VARIABLES
    editResponseIdInProgress,   \* context key, "" when reset
    editCodeblockInProgress,    \* context key, -1 when reset
    pendingRequests,            \* Map sessionId -> streaming task (index into tasks)
    pendingEdits,               \* Map sessionId -> list of batches
    textModels,                 \* Map URI object -> buffer pair
    editStrategies,             \* Map URI object -> LiveStrategy
    models,                     \* modelService: document -> live text model
    tasks,                      \* the streaming tasks started so far
    showDiff,                   \* configuration option inlineChat.showDiff
    codeEditors,                \* codeEditorService: the documents listCodeEditors has an editor of
    disposedStrategies,         \* the strategies dispose() took out of the registry while an
                                \* application task held them, by strategy id
    last                        \* the last operation performed and what it returned

vars == <<editResponseIdInProgress, editCodeblockInProgress, pendingRequests,
          pendingEdits, textModels, editStrategies, models, tasks, showDiff,
          codeEditors, disposedStrategies, last>>

----------------------------------------------------------------------------
(* Bounds of the model *)

\* sendEditRequest calls that start a streaming task
MaxTasks == 2
\* partial results the streaming task accepts when one request streams
MaxBatches == 3
\* partial results the streaming task accepts when its edits are accepted or rejected
MaxConfirmBatches == 2
\* partial results the streaming tasks accept in all when several sessions stream
MaxSessionBatches == 1

----------------------------------------------------------------------------
(* Maps with the semantics of a JavaScript Map *)

EmptyMap == [x \in {} |-> 0]

MapHas(m, k) == k \in DOMAIN m

MapSet(m, k, v) == [x \in (DOMAIN m) \cup {k} |-> IF x = k THEN v ELSE m[x]]

MapDelete(m, k) == [x \in (DOMAIN m) \ {k} |-> m[x]]

\* An optional value: << >> is undefined
Undefined == << >>

Some(v) == <<v>>

Min(a, b) == IF a < b THEN a ELSE b

Max(a, b) == IF a > b THEN a ELSE b

----------------------------------------------------------------------------
(* The inputs *)

\* IChatResponseViewModel: a response and the session it belongs to
ResponseVMs ==
    { [id |-> "r1", sessionId |-> "s1"],
      [id |-> "r2", sessionId |-> "s2"] }

Context(n) == [codeBlockIndex |-> n]

\* ICSChatAgentEditRequest.context: no, one (code block 0 or 1) or two contexts
Requests ==
    { [context |-> << >>],
      [context |-> <<Context(0)>>],
      [context |-> <<Context(1)>>],
      [context |-> <<Context(0), Context(1)>>] }

\* A URI is an object: two URI objects can name the same document. "a" and "b"
\* are documents open in an editor, "v" has a live buffer and no editor until
\* openCodeEditor opens one, "n" has no live buffer.
uri(doc, obj) == [doc |-> doc, obj |-> obj]

URIs == { uri("a", 1), uri("a", 2), uri("b", 1), uri("v", 1), uri("n", 1) }

UriToString(u) == u.doc

ModelDocs == {"a", "b", "v"}

\* The documents listCodeEditors has an editor of when the service is constructed
EditorDocs == {"a", "b"}

TextEdit(u, s, e, text) == [resource |-> u, range |-> <<s, e>>, text |-> text]

\* ICSChatAgentEditResponse.edits.edits: the batches an agent can stream
Batches ==
    { << TextEdit(uri("a", 1), 0, 0, <<"x">>) >>,
      << TextEdit(uri("a", 2), 0, 1, <<"y", "z">>) >>,
      << TextEdit(uri("a", 1), 1, 2, << >>),
         TextEdit(uri("b", 1), 0, 0, <<"x">>) >>,
      << TextEdit(uri("n", 1), 0, 0, <<"x">>),
         TextEdit(uri("a", 1), 1, 1, <<"w">>) >>,
      << TextEdit(uri("b", 1), 0, 1, <<"y">>),
         TextEdit(uri("v", 1), 0, 0, <<"x">>),
         TextEdit(uri("a", 1), 0, 0, <<"w">>) >> }

----------------------------------------------------------------------------
(* The text model of a live buffer: content, version stamps and undo stack *)

\* The range <<s, e>> validated against a content of length n
ValidRange(range, n) ==
    LET s == Min(Max(range[1], 0), n)
        e == Min(Max(range[2], s), n)
    IN  <<s, e>>

\* The content with the atoms of the range replaced by text
ReplaceRange(content, range, text) ==
    LET r == ValidRange(range, Len(content))
    IN  SubSeq(content, 1, r[1]) \o text \o SubSeq(content, r[2] + 1, Len(content))

\* ITextModel.pushStackElement / ICodeEditor.pushUndoStop: close the open undo element
ModelPushStackElement(m) == [m EXCEPT !.open = FALSE]

\* ITextModel.pushEditOperations / ICodeEditor.executeEdits: one edit, recorded in
\* the open undo element or in a new one
ModelPushEditOperations(m, range, text) ==
    [ content |-> ReplaceRange(m.content, range, text),
      ver     |-> m.ver + 1,
      alt     |-> m.ver + 1,
      undo    |-> IF m.open THEN m.undo
                  ELSE Append(m.undo, [content |-> m.content, alt |-> m.alt]),
      open    |-> TRUE,
      disposed |-> m.disposed ]

ModelCanUndo(m) == Len(m.undo) > 0

\* ITextModel.isDisposed
ModelIsDisposed(m) == m.disposed

\* ITextModel.dispose: the buffer is closed
ModelDispose(m) == [m EXCEPT !.disposed = TRUE]

\* ITextModel.undo: revert the last undo element, which restores the alternative
\* version id the buffer had before that element
ModelUndo(m) ==
    LET top == m.undo[Len(m.undo)]
    IN  [ content |-> top.content,
          ver     |-> m.ver + 1,
          alt     |-> top.alt,
          undo    |-> SubSeq(m.undo, 1, Len(m.undo) - 1),
          open    |-> FALSE,
          disposed |-> m.disposed ]

\* A buffer nobody has edited yet
FreshModel(content) ==
    [ content |-> content, ver |-> 1, alt |-> 1, undo |-> << >>, open |-> FALSE,
      disposed |-> FALSE ]

\* A buffer the user has just typed into: the user's undo element is still open
TypedModel(before, content) ==
    [ content |-> content, ver |-> 2, alt |-> 2,
      undo |-> << [content |-> before, alt |-> 1] >>, open |-> TRUE,
      disposed |-> FALSE ]

----------------------------------------------------------------------------
(* ChatEditSessionService *)

activeEditRequestId ==
    IF editResponseIdInProgress = "" THEN Undefined ELSE Some(editResponseIdInProgress)

activeEditCodeblockNumber ==
    IF editCodeblockInProgress = -1 THEN Undefined ELSE Some(editCodeblockInProgress)

\* token.isCancellationRequested that never sees the signal
NeverCancellationRequested(task) == FALSE

\* token.isCancellationRequested, for the token of a streaming task
IsCancellationRequested(task) == task.cancelled

\* No application task is executing. Of an executing task: its batch, the edit i
\* the loop of _makeChanges is at, where that turn of the loop is waiting (phase),
\* whether getTextModels has thrown, the strategy the turn holds (by its id), the
\* anchor and the parts left of the progressive edit, and the diff computeDiff has
\* taken for renderChanges, which waits for the continuation of renderChanges
Idle ==
    [ active |-> FALSE, batch |-> << >>, i |-> 0, phase |-> "idle",
      threw |-> FALSE, strategy |-> Undefined,
      anchor |-> <<0, 0>>, rest |-> << >>, first |-> FALSE, diff |-> Undefined ]

\* The streaming task _sendEditRequestAsync starts: the cancelable promise, its
\* token, the agent call and the application queue
NewTask(responseVM, request) ==
    [ id        |-> responseVM.id,
      sessionId |-> responseVM.sessionId,
      codeBlockIndex |-> request.context[1].codeBlockIndex,
      cancelled |-> FALSE,       \* token.isCancellationRequested
      agent     |-> "running",   \* csChatAgentService.makeEdits has not returned
      outcome   |-> Undefined,   \* how rawResponsePromise resolves or rejects, once decided
      settled   |-> FALSE,       \* the finally of rawResponsePromise has run
      arrived   |-> << >>,       \* the batches the callback accepted, in order
      queue     |-> << >>,       \* progressiveEditsQueue: tasks not started yet
      cur       |-> Idle,        \* the application task that is executing
      done      |-> << >>,       \* per finished application task, the edits it applied
      applied   |-> << >> ]      \* the edits the executing task has applied so far

\* The record of an operation: its name, its argument (a record) and its result
Call(op, arg, ret) == [op |-> op, arg |-> arg, ret |-> ret]

NoArg == [none |-> TRUE]

Session(sid) == [sessionId |-> sid]

\* The arguments of sendEditRequest that decide what it does
SendArgs(responseVM, request) ==
    [sessionId |-> responseVM.sessionId, contexts |-> Len(request.context)]

\* _sendEditRequestAsync
SendEditRequestAsync(responseVM, request) ==
    /\ tasks' = Append(tasks, NewTask(responseVM, request))
    /\ pendingRequests' = MapSet(pendingRequests, responseVM.sessionId, Len(tasks) + 1)

\* sendEditRequest without the test of the in-flight map
SendEditRequestUnchecked(responseVM, request) ==
    IF Len(request.context) # 1
    THEN /\ last' = Call("sendEditRequest", SendArgs(responseVM, request), "undefined")
         /\ UNCHANGED <<editResponseIdInProgress, editCodeblockInProgress,
                        pendingRequests, pendingEdits, textModels, editStrategies,
                        models, tasks, showDiff,
                   codeEditors, disposedStrategies>>
    ELSE /\ editResponseIdInProgress' = responseVM.id
         /\ editCodeblockInProgress' = request.context[1].codeBlockIndex
         /\ SendEditRequestAsync(responseVM, request)
         /\ last' = Call("sendEditRequest", SendArgs(responseVM, request), "handle")
         /\ UNCHANGED <<pendingEdits, textModels, editStrategies, models, showDiff,
                   codeEditors, disposedStrategies>>

\* sendEditRequest with the markers published before the test of the context list
SendEditRequestMarkersFirst(responseVM, request) ==
    /\ editResponseIdInProgress' = responseVM.id
    /\ editCodeblockInProgress' =
          IF request.context = << >> THEN -1 ELSE request.context[1].codeBlockIndex
    /\ IF Len(request.context) # 1 \/ MapHas(pendingRequests, responseVM.sessionId)
       THEN /\ last' = Call("sendEditRequest", SendArgs(responseVM, request), "undefined")
            /\ UNCHANGED <<pendingRequests, tasks>>
       ELSE /\ SendEditRequestAsync(responseVM, request)
            /\ last' = Call("sendEditRequest", SendArgs(responseVM, request), "handle")
    /\ UNCHANGED <<pendingEdits, textModels, editStrategies, models, showDiff,
                   codeEditors, disposedStrategies>>

\* sendEditRequest
SendEditRequest(responseVM, request) ==
    IF Len(request.context) # 1
    THEN /\ last' = Call("sendEditRequest", SendArgs(responseVM, request), "undefined")
         /\ UNCHANGED <<editResponseIdInProgress, editCodeblockInProgress,
                        pendingRequests, pendingEdits, textModels, editStrategies,
                        models, tasks, showDiff,
                   codeEditors, disposedStrategies>>
    ELSE /\ editResponseIdInProgress' = responseVM.id
         /\ editCodeblockInProgress' = request.context[1].codeBlockIndex
         /\ IF MapHas(pendingRequests, responseVM.sessionId)
            THEN /\ last' = Call("sendEditRequest", SendArgs(responseVM, request), "undefined")
                 /\ UNCHANGED <<pendingRequests, tasks>>
            ELSE /\ SendEditRequestAsync(responseVM, request)
                 /\ last' = Call("sendEditRequest", SendArgs(responseVM, request), "handle")
         /\ UNCHANGED <<pendingEdits, textModels, editStrategies, models, showDiff,
                   codeEditors, disposedStrategies>>

----------------------------------------------------------------------------
(* CSChatEditsDiffDecorations *)

\* { ...a, ...b }: the properties of b over those of a
Spread(a, b) ==
    [f \in (DOMAIN a) \cup (DOMAIN b) |-> IF f \in DOMAIN b THEN b[f] ELSE a[f]]

\* _asDecorationData, for an applied edit whose resulting range is range
AsDecorationData(range) ==
    [ tracking   |-> [ range   |-> range,
                       options |-> [description |-> "cschat-edits-inline-diff"] ],
      decorating |-> [ description |-> "cschat-edits-inline-diff",
                       className |-> IF range[1] # range[2]
                                     THEN Some("cschat-edits-lines-inserted-range")
                                     ELSE Undefined,
                       showIfCollapsed |-> TRUE ] ]

\* update() that adds to the decorations of the view instead of replacing them
DecorationsUpdateAppending(dec) ==
    [dec EXCEPT !.collection =
        @ \o [k \in 1..Len(dec.data) |->
                 IF dec.visible
                 THEN [dec.data[k].tracking EXCEPT
                          !.options = Spread(@, dec.data[k].decorating)]
                 ELSE dec.data[k].tracking]]

\* update(): what is set on the decorations collection of the view
DecorationsUpdate(dec) ==
    [dec EXCEPT !.collection =
        [k \in 1..Len(dec.data) |->
            IF dec.visible
            THEN [dec.data[k].tracking EXCEPT
                     !.options = Spread(@, dec.data[k].decorating)]
            ELSE dec.data[k].tracking]]

\* set visible(value) that leaves the decorations of the view as they are
DecorationsSetVisibleOnly(dec, value) == [dec EXCEPT !.visible = value]

\* set visible(value)
DecorationsSetVisible(dec, value) == DecorationsUpdate([dec EXCEPT !.visible = value])

\* new CSChatEditsDiffDecorations(editor, visible)
NewDiffDecorations(visible) ==
    [data |-> << >>, visible |-> visible, collection |-> << >>]

\* clear()
DecorationsClear(dec) == [dec EXCEPT !.collection = << >>, !.data = << >>]

\* collectEditOperation(op), op.range being range
CollectEditOperation(dec, range) ==
    [dec EXCEPT !.data = Append(@, AsDecorationData(range))]

\* get decorationRanges
DecorationRanges(dec) == [k \in 1..Len(dec.data) |-> dec.data[k].tracking.range]

----------------------------------------------------------------------------
(* LiveStrategy *)

\* new LiveStrategy(editCodeblockInProgress, models, editor, response), the
\* configuration option being config. task is the streaming task whose batch caused
\* the creation, accepted the alternative version id of the live buffer at the last
\* apply() that followed an edit, undoStops the undo stops pushed before an edit,
\* published the last summary recorded on the response
NewLiveStrategy(codeblock, t, config, order, id) ==
    [ editCodeblockInProgress |-> codeblock,
      id        |-> id,          \* the identity of the object
      order     |-> order,       \* position in the iteration order of the registry
      editCount |-> 0,
      diffEnabled |-> config,
      diffDecorations |-> DecorationsSetVisible(NewDiffDecorations(config), config),
      published |-> Undefined,
      undoStops |-> 0,
      task      |-> t,
      accepted  |-> Undefined,
      subscribed |-> TRUE ]      \* the configuration listener held by _store

\* The parts asProgressiveEdit reveals one after the other: the words of the
\* replacement text, or the empty text once
Parts(text) ==
    IF text = << >> THEN << << >> >> ELSE [k \in 1..Len(text) |-> <<text[k]>>]

\* makeChanges / makeProgressiveChanges: ++_editCount === 1
FirstEdit(strategy) == strategy.editCount + 1 = 1

\* makeChanges / makeProgressiveChanges, before the edit: an undo stop when this is
\* the first edit of the strategy
PushUndoStopBeforeFirstEdit(strategy, m) ==
    IF FirstEdit(strategy) THEN ModelPushStackElement(m) ELSE m

\* makeChanges / makeProgressiveChanges: the strategy once the edit is counted
CountEdit(strategy) ==
    [strategy EXCEPT !.editCount = @ + 1,
                     !.undoStops = IF FirstEdit(strategy) THEN @ + 1 ELSE @]

\* cursorStateComputerAndInlineDiffCollection: the range the applied edit now has
\* is collected by the decorations
CollectUndoEdit(strategy, range, text, n) ==
    LET r == ValidRange(range, n)
    IN  [strategy EXCEPT
            !.diffDecorations = CollectEditOperation(@, <<r[1], r[1] + Len(text)>>)]

\* makeChanges(edits) of one edit, the discrete application, m being the live
\* buffer: the edit is counted, the first one after an undo stop and a scroll to
\* its start, and written with executeEdits, which collects its decoration
StrategyMakeChanges(strategy, m, edit) ==
    LET m1 == PushUndoStopBeforeFirstEdit(strategy, m)
    IN  [ strategy |-> CollectUndoEdit(CountEdit(strategy), edit.range, edit.text,
                                       Len(m1.content)),
          m        |-> ModelPushEditOperations(m1, edit.range, edit.text),
          revealPositionInCenter |->
              IF FirstEdit(strategy) THEN Some(edit.range[1]) ELSE Undefined ]

\* _undoModelUntil that rewinds as far as the undo stack goes
UndoModelToStart(m, targetAltVersion) ==
    IF ModelCanUndo(m)
    THEN [ content |-> m.undo[1].content,
           ver     |-> m.ver + Len(m.undo),
           alt     |-> m.undo[1].alt,
           undo    |-> << >>,
           open    |-> FALSE,
           disposed |-> m.disposed ]
    ELSE m

RECURSIVE UndoModelUntil(_, _)
\* _undoModelUntil
UndoModelUntil(m, targetAltVersion) ==
    IF targetAltVersion < m.alt /\ ModelCanUndo(m)
    THEN UndoModelUntil(ModelUndo(m), targetAltVersion)
    ELSE m

\* undoChanges(altVersionId), m being the live buffer of the strategy
StrategyUndoChanges(m, altVersionId) == UndoModelUntil(m, altVersionId)

\* cancel(): the rewind target
CancelTarget(pair) ==
    IF pair.textModelNSnapshotAltVersion # Undefined
    THEN pair.textModelNSnapshotAltVersion[1]
    ELSE pair.textModelNAltVersion

\* this._diffDecorations.clear()
StrategyCleared(strategy) ==
    [strategy EXCEPT !.diffDecorations = DecorationsClear(@)]

\* cancel(), m being the live buffer of the pair: nothing when the buffer is
\* disposed, else the rewind to the target and the decorations cleared
StrategyCancel(strategy, pair, m) ==
    IF ModelIsDisposed(m)
    THEN [m |-> m, strategy |-> strategy]
    ELSE [ m        |-> UndoModelUntil(m, CancelTarget(pair)),
           strategy |-> StrategyCleared(strategy) ]

\* apply(), m being the buffer of the editor: an undo stop when an edit was
\* made, and the decorations cleared
StrategyApply(strategy, m) ==
    [ m        |-> IF strategy.editCount > 0 THEN ModelPushStackElement(m) ELSE m,
      strategy |-> StrategyCleared(strategy) ]

\* dispose() of a strategy: the decorations are cleared, the store is disposed
StrategyDispose(strategy) ==
    [StrategyCleared(strategy) EXCEPT !.subscribed = FALSE]

\* The listener of onDidChangeConfiguration, for an event that affects
\* inlineChat.showDiff: the flag is inverted and given to the decorations
StrategyConfigurationChanged(strategy) ==
    IF strategy.subscribed
    THEN [strategy EXCEPT
            !.diffEnabled = ~strategy.diffEnabled,
            !.diffDecorations = DecorationsSetVisible(@, ~strategy.diffEnabled)]
    ELSE strategy

\* countWords: a replacement text is a sequence of words
CountWords(text) == Len(text)

----------------------------------------------------------------------------
(* The numbers of JavaScript: IEEE 754 doubles that are not negative *)

\* A double that is no finite number: "Infinity" or "NaN"
NotFinite(kind) == [kind |-> kind, mant |-> << >>, exp |-> 0]

\* The double bits * 2^exp for a binary numeral bits, the most significant bit
\* first. A finite double is mant * 2^exp with an odd numeral mant of at most 53
\* bits (none for zero); from 2^1024 on the number is Infinity
Finite(bits, exp) ==
    LET ones  == {k \in 1..Len(bits) : bits[k] = 1}
        lsb   == CHOOSE k \in ones : \A l \in ones : l <= k
    IN  IF ones = {} THEN [kind |-> "finite", mant |-> << >>, exp |-> 0]
        ELSE IF Len(bits) + exp > 1024 THEN NotFinite("Infinity")
        ELSE [ kind |-> "finite",
               mant |-> SubSeq(bits, 1, lsb),
               exp  |-> exp + Len(bits) - lsb ]

\* The natural number n as a double
Number(n) ==
    LET RECURSIVE BitsOf(_)
        BitsOf(k) == IF k = 0 THEN << >> ELSE Append(BitsOf(k \div 2), k % 2)
    IN  Finite(BitsOf(n), 0)

\* The natural number a double is, when it is one
IntegerOf(x) ==
    LET RECURSIVE NatOf(_)
        NatOf(bits) ==
            IF bits = << >> THEN 0
            ELSE 2 * NatOf(SubSeq(bits, 1, Len(bits) - 1)) + bits[Len(bits)]
    IN  NatOf(x.mant \o [k \in 1..x.exp |-> 0])

\* a >= b for binary numerals without leading zeros
BitsGeq(a, b) ==
    IF Len(a) # Len(b) THEN Len(a) > Len(b)
    ELSE LET diff == {k \in 1..Len(a) : a[k] # b[k]}
         IN  diff = {} \/ a[CHOOSE k \in diff : \A l \in diff : k <= l] = 1

\* Math.min
MathMin(x, y) ==
    LET n         == Max(Len(x.mant), Len(y.mant))
        Padded(z) == z.mant \o [k \in 1..(n - Len(z.mant)) |-> 0]
        yIsLess   ==
            IF y.kind = "Infinity" THEN FALSE
            ELSE IF x.kind = "Infinity" THEN TRUE
            ELSE IF x.mant = << >> THEN FALSE
            ELSE IF y.mant = << >> THEN TRUE
            ELSE IF Len(y.mant) + y.exp # Len(x.mant) + x.exp
            THEN Len(y.mant) + y.exp < Len(x.mant) + x.exp
            ELSE ~BitsGeq(Padded(y), Padded(x))
    IN  IF x.kind = "NaN" \/ y.kind = "NaN" THEN NotFinite("NaN")
        ELSE IF yIsLess THEN y ELSE x

\* x / y for finite doubles above zero: the long division of the significands, one
\* bit a step, down to the last bit a double keeps (53 bits, or fewer when the last
\* one is the bit of 2^-1074), rounded to nearest, ties to even, by the bit after
\* it and what is left
Quotient(x, y) ==
    LET a  == x.mant
        b  == y.mant
        de == x.exp - y.exp
        \* 2 * r + d for a numeral r and a bit d
        ShiftIn(r, d) == IF r = << >> /\ d = 0 THEN << >> ELSE Append(r, d)
        \* r - b for a numeral r >= b: a bit of b is taken from the bit of r above
        \* it, and one more is borrowed where the bits below are less in r
        Minus(r) ==
            LET n         == Len(r)
                bb        == [k \in 1..(n - Len(b)) |-> 0] \o b
                Borrow(k) == LET diff == {l \in (k + 1)..n : r[l] # bb[l]}
                             IN  diff # {} /\ r[CHOOSE l \in diff : \A m \in diff : l <= m] = 0
                bits      == [k \in 1..n |->
                                 (r[k] + 2 - bb[k] - (IF Borrow(k) THEN 1 ELSE 0)) % 2]
                ones      == {k \in 1..n : bits[k] = 1}
            IN  IF ones = {} THEN << >>
                ELSE SubSeq(bits, CHOOSE k \in ones : \A l \in ones : k <= l, n)
        \* q + 1: the ones the numeral ends with become zeros, the zero before them
        \* a one
        PlusOne(q) ==
            LET zeros == {k \in 1..Len(q) : q[k] = 0}
                z     == CHOOSE k \in zeros : \A l \in zeros : l <= k
            IN  IF zeros = {} THEN <<1>> \o [k \in 1..Len(q) |-> 0]
                ELSE [k \in 1..Len(q) |-> IF k < z THEN q[k] ELSE IF k = z THEN 1 ELSE 0]
        \* step t of the division: the t-th bit of a, or a zero after its last,
        \* comes down to the remainder, and the quotient gets a one where b goes
        \* into it
        Step(s, t) ==
            LET r == ShiftIn(s.r, IF t <= Len(a) THEN a[t] ELSE 0)
            IN  IF BitsGeq(r, b) THEN [q |-> Append(s.q, 1), r |-> Minus(r)]
                ELSE [q |-> ShiftIn(s.q, 0), r |-> r]
        \* quotient and remainder after the steps from..to, s being what the steps
        \* before them gave; the steps are taken half by half, each half on the
        \* value of the one before it
        RECURSIVE Steps(_, _, _)
        Steps(s, from, to) ==
            IF from > to THEN s
            ELSE IF from = to THEN Step(s, from)
            ELSE LET mid == (from + to) \div 2
                 IN  CHOOSE done \in { Steps(half, mid + 1, to) :
                                           half \in {Steps(s, from, mid)} } : TRUE
        \* the step that gives the first bit of the quotient
        t0   == IF BitsGeq([k \in 1..Len(b) |-> IF k <= Len(a) THEN a[k] ELSE 0], b)
                THEN Len(b) ELSE Len(b) + 1
        \* the exponents of the first and of the last bit kept
        high == Len(a) - t0 + de
        low  == Max(high - 52, 0 - 1074)
        \* the step that gives the bit after the last one kept
        tg   == Len(a) + de - low + 1
        kept == Steps([q |-> << >>, r |-> << >>], 1, tg - 1)
        rg   == ShiftIn(kept.r, IF tg <= Len(a) THEN a[tg] ELSE 0)
        half == BitsGeq(rg, b)
        left == (IF half THEN Minus(rg) ELSE rg) # << >> \/ tg < Len(a)
        odd  == kept.q # << >> /\ kept.q[Len(kept.q)] = 1
    IN  IF tg < t0 THEN Finite(<< >>, 0)
        ELSE Finite(IF half /\ (left \/ odd) THEN PlusOne(kept.q) ELSE kept.q, low)

\* x / y, the division of two numbers of JavaScript that are not negative
Divide(x, y) ==
    IF x.kind = "NaN" \/ y.kind = "NaN" THEN NotFinite("NaN")
    ELSE IF x.kind = "Infinity"
    THEN (IF y.kind = "Infinity" THEN NotFinite("NaN") ELSE NotFinite("Infinity"))
    ELSE IF y.kind = "Infinity" THEN Finite(<< >>, 0)
    ELSE IF y.mant = << >>
    THEN (IF x.mant = << >> THEN NotFinite("NaN") ELSE NotFinite("Infinity"))
    ELSE IF x.mant = << >> THEN Finite(<< >>, 0)
    ELSE Quotient(x, y)

\* makeProgressiveChanges with the duration taken for seconds
SpeedOfSeconds(wordCount, duration) == Divide(Number(wordCount), duration)

\* makeProgressiveChanges: the speed given to asProgressiveEdit, in words per
\* second, for a duration in milliseconds
Speed(wordCount, duration) ==
    LET durationInSec == Divide(duration, Number(1000))
    IN  Divide(Number(wordCount), durationInSec)

\* Number.MAX_VALUE, (2^53 - 1) * 2^971
NumberMaxValue == Finite([k \in 1..53 |-> 1], 971)

\* The line range [startLineNumber, endLineNumberExclusive)
LineRange(startLineNumber, endLineNumberExclusive) ==
    [startLineNumber |-> startLineNumber, endLineNumberExclusive |-> endLineNumberExclusive]

\* A hunk of a diff: the changed lines of the original and of the modified buffer
Change(original, modified) ==
    [ original |-> original, modified |-> modified,
      changedLineCount |->
          Max(original.endLineNumberExclusive - original.startLineNumber,
              modified.endLineNumberExclusive - modified.startLineNumber) ]

RECURSIVE CommonPrefix(_, _)
CommonPrefix(a, b) ==
    IF a = << >> \/ b = << >> \/ Head(a) # Head(b) THEN 0
    ELSE 1 + CommonPrefix(Tail(a), Tail(b))

\* computeDiff(textModel0, textModelN): the lines between the common prefix and
\* the common suffix of the two buffers form the one hunk
ComputeDiff(original, modified) ==
    LET Reverse(a) == [k \in 1..Len(a) |-> a[Len(a) + 1 - k]]
        p == CommonPrefix(original, modified)
        q == CommonPrefix(Reverse(SubSeq(original, p + 1, Len(original))),
                          Reverse(SubSeq(modified, p + 1, Len(modified))))
    IN  IF original = modified THEN Some([changes |-> << >>])
        ELSE Some([changes |->
                 << Change(LineRange(p + 1, Len(original) - q + 1),
                           LineRange(p + 1, Len(modified) - q + 1)) >>])

RECURSIVE LinesChanged(_)
\* _updateSummaryMessage: the sum of changedLineCount over the hunks
LinesChanged(mappings) ==
    IF mappings = << >> THEN 0
    ELSE Head(mappings).changedLineCount + LinesChanged(Tail(mappings))

\* The message with "lines" for one changed line too
SummaryMessagePlural(linesChanged) ==
    IF linesChanged = 0 THEN "Nothing changed"
    ELSE "Changed " \o ToString(linesChanged) \o " lines"

\* _updateSummaryMessage: the localized message
SummaryMessage(linesChanged) ==
    IF linesChanged = 0 THEN "Nothing changed"
    ELSE IF linesChanged = 1 THEN "Changed 1 line"
    ELSE "Changed " \o ToString(linesChanged) \o " lines"

\* The reduce that keeps the range of the first hunk
BoundingRangeOfFirst(mappings, prev) ==
    IF mappings = << >> THEN prev
    ELSE [ startLineNumber |-> Number(Head(mappings).modified.startLineNumber),
           startColumn     |-> 1,
           endLineNumber   |-> Head(mappings).modified.endLineNumberExclusive,
           endColumn       |-> 1 ]

RECURSIVE BoundingRange(_, _)
\* _updateSummaryMessage: the reduce over the modified line ranges of the hunks,
\* whose start line is a double because the reduce starts from Number.MAX_VALUE
BoundingRange(mappings, prev) ==
    IF mappings = << >> THEN prev
    ELSE LET curr == Head(mappings).modified
         IN  BoundingRange(Tail(mappings),
                 [ startLineNumber |-> MathMin(prev.startLineNumber,
                                               Number(curr.startLineNumber)),
                   startColumn     |-> 1,
                   endLineNumber   |-> Max(prev.endLineNumber, curr.endLineNumberExclusive),
                   endColumn       |-> 1 ])

\* _updateSummaryMessage(uri, diff): the message and, when the diff has hunks, the
\* summary recorded on the response for the code block of the strategy
UpdateSummaryMessage(codeblock, u, diff) ==
    LET mappings == IF diff = Undefined THEN << >> ELSE diff[1].changes
        message  == SummaryMessage(LinesChanged(mappings))
        range    == BoundingRange(mappings,
                                  [ startLineNumber |-> NumberMaxValue,
                                    startColumn |-> 1,
                                    endLineNumber |-> 0,
                                    endColumn |-> 1 ])
    IN  [ message  |-> message,
          recorded |->
              IF Len(mappings) > 0
              THEN Some([ codeblock |-> codeblock,
                          editSummary |->
                            [ location |->
                                [ uri   |-> u,
                                  range |-> [range EXCEPT !.startLineNumber =
                                                               IntegerOf(@)] ],
                              summary |-> message ] ])
              ELSE Undefined ]

\* renderChanges() of a strategy bound to the buffer pair pair, after its await:
\* diff is what computeDiff has resolved with; the summary is recorded when there
\* is one, the decorations are updated
RenderChanges(strategy, pair, diff) ==
    LET out == UpdateSummaryMessage(strategy.editCodeblockInProgress,
                                    pair.textModel0Uri, diff)
    IN  [strategy EXCEPT
            !.published = IF out.recorded # Undefined THEN out.recorded ELSE @,
            !.diffDecorations = DecorationsUpdate(@)]

\* getEditRangesInProgress() that locates the ranges in the live document
StrategyRangesInLiveDocument(strategy, pair) ==
    [k \in 1..Len(strategy.diffDecorations.data) |->
        [uri |-> uri(pair.textModelN, 0), range |-> DecorationRanges(strategy.diffDecorations)[k]]]

\* getEditRangesInProgress()
StrategyGetEditRangesInProgress(strategy, pair) ==
    [k \in 1..Len(strategy.diffDecorations.data) |->
        [uri |-> pair.textModel0Uri, range |-> DecorationRanges(strategy.diffDecorations)[k]]]

----------------------------------------------------------------------------
(* The application of the batches *)

\* The URI of the n-th model created without a resource
SnapshotUri(n) == uri("inmemory", n)

\* getTextModels, for a URI that has no buffer pair yet, n pairs existing
NewTextModels(u, m, n) ==
    [ textModel0 |-> m.content,
      textModel0Uri |-> SnapshotUri(n + 1),
      textModelN |-> UriToString(u),
      textModelNAltVersion |-> m.alt,
      textModelNSnapshotAltVersion |-> Undefined ]

\* getTextModels that makes a new buffer pair at every call
GetTextModelsAnew(tm, u, m) ==
    MapSet(tm, u, NewTextModels(u, m, Cardinality(DOMAIN tm)))

\* getTextModels on a document that has a live buffer m: the buffer pairs afterwards
GetTextModels(tm, u, m) ==
    IF MapHas(tm, u) THEN tm
    ELSE MapSet(tm, u, NewTextModels(u, m, Cardinality(DOMAIN tm)))

\* modelService.getModel finds a live buffer for the document
HasModel(ms, d) == d \in DOMAIN ms /\ ~ModelIsDisposed(ms[d])

\* What an application task reads and writes: the buffer pairs, the strategies of
\* the registry and those taken out of it, the live buffers and its own streaming
\* task, and the configuration it reads
Ctx(tm, es, ds, ms, task, config) ==
    [tm |-> tm, es |-> es, ds |-> ds, ms |-> ms, task |-> task, config |-> config]

\* The URIs under which the registry holds the strategy with identity id
RegisteredAs(es, id) == {u \in DOMAIN es : es[u].id = id}

\* The strategy object with identity id, which a task holds
StrategyOf(c, id) ==
    IF RegisteredAs(c.es, id) # {}
    THEN c.es[CHOOSE u \in RegisteredAs(c.es, id) : TRUE]
    ELSE c.ds[id]

\* The strategy object a task holds, after a call has changed it
PutStrategy(c, strategy) ==
    IF RegisteredAs(c.es, strategy.id) # {}
    THEN [c EXCEPT !.es[CHOOSE u \in RegisteredAs(c.es, strategy.id) : TRUE] = strategy]
    ELSE [c EXCEPT !.ds = MapSet(@, strategy.id, strategy)]

\* _makeChanges, the start of a turn of its loop: getTextModels of the document
\* of the edit runs, and the turn waits for its promise. getTextModels throws when
\* the URI has no buffer pair and the document has no live buffer
GetTextModelsOfEdit(c) ==
    LET cur == c.task.cur
        u   == cur.batch[cur.i].resource
        d   == UriToString(u)
        waiting == [c EXCEPT !.task.cur.phase = "getTextModels",
                             !.task.cur.strategy = Undefined]
    IN  IF ~MapHas(c.tm, u) /\ ~HasModel(c.ms, d)
        THEN [waiting EXCEPT !.task.cur.threw = TRUE]
        ELSE [waiting EXCEPT !.tm = GetTextModels(c.tm, u, c.ms[d])]

RECURSIVE ConsumeQueue(_)

\* Queue.consume: the executing task is over; the next queued task starts at once,
\* up to the first await of _makeChanges, and is a no-op once the token has been
\* signalled
ConsumeQueue(c) ==
    LET task == c.task
        over == [task EXCEPT !.cur = Idle,
                             !.done = IF task.cur.active
                                      THEN Append(task.done, task.applied)
                                      ELSE task.done,
                             !.applied = << >>]
    IN  IF over.queue = << >>
        THEN [c EXCEPT !.task = over]
        ELSE LET next == [over EXCEPT !.queue = Tail(over.queue),
                                      !.cur = [Idle EXCEPT !.active = TRUE,
                                                           !.batch = Head(over.queue),
                                                           !.i = 1]]
             IN  IF IsCancellationRequested(over)
                 THEN ConsumeQueue([c EXCEPT !.task = next])
                 ELSE GetTextModelsOfEdit([c EXCEPT !.task = next])

\* The queued task whose rejection makes the queue drop the tasks that wait
TaskRejectedDropsQueue(c) ==
    [c EXCEPT !.task.cur = Idle,
              !.task.done = Append(@, c.task.applied),
              !.task.applied = << >>,
              !.task.queue = << >>]

\* The queued task rejects because getTextModels has thrown in _makeChanges: the
\* error stays in the promise of that task, which nobody awaits, and the queue
\* goes on
TaskRejected(c) == ConsumeQueue(c)

\* The identity of the strategy streaming task t creates at the edit it is at
StrategyId(task, t) == <<t, Len(task.done) + 1, task.cur.i>>

\* _makeChanges once it has an editor, up to the first suspension inside
\* makeProgressiveChanges: the strategy of the registry or a new one, bound to
\* code block codeblock, the count of the edit, the undo stop before the first
\* edit, and the anchor of the progressive edit
MakeChangesFrom(c, t, codeblock) ==
    LET cur  == c.task.cur
        edit == cur.batch[cur.i]
        u    == edit.resource
        d    == UriToString(u)
        strategy == IF MapHas(c.es, u) THEN c.es[u]
                    ELSE NewLiveStrategy(codeblock, t, c.config,
                                         Cardinality(DOMAIN c.es) + 1,
                                         StrategyId(c.task, t))
        m1 == PushUndoStopBeforeFirstEdit(strategy, c.ms[d])
    IN  [c EXCEPT !.es = MapSet(c.es, u, CountEdit(strategy)),
                  !.ms[d] = m1,
                  !.task.cur.phase = "reveal",
                  !.task.cur.strategy = Some(strategy.id),
                  !.task.cur.anchor = ValidRange(edit.range, Len(m1.content)),
                  !.task.cur.rest = Parts(edit.text),
                  !.task.cur.first = TRUE]

\* The variables an application step writes
Commit(c, t) ==
    /\ textModels' = c.tm
    /\ editStrategies' = c.es
    /\ disposedStrategies' = c.ds
    /\ models' = c.ms
    /\ tasks' = [tasks EXCEPT ![t] = c.task]

Here(t) == Ctx(textModels, editStrategies, disposedStrategies, models, tasks[t], showDiff)

\* The edit the application task of streaming task t is at
EditAt(t) == tasks[t].cur.batch[tasks[t].cur.i]

\* Queue.queue with the new task put before the waiting ones
EnqueueFirst(queue, batch) == <<batch>> \o queue

\* Queue.queue: the new task waits behind the tasks queued before it
Enqueue(queue, batch) == Append(queue, batch)

\* progressCallback: a partial result of the agent call of task t. The batch joins
\* the pending list of the session and its task the queue; an idle queue starts the
\* task at once, which runs up to the first await of _makeChanges
AgentProgress(t, batch) ==
    /\ tasks[t].agent = "running"
    /\ LET task == tasks[t]
           sid  == task.sessionId
       IN  IF IsCancellationRequested(task)
           THEN /\ last' = Call("progressCallback", Session(sid), "ignored")
                /\ UNCHANGED <<pendingEdits, textModels, editStrategies, models, tasks,
                               disposedStrategies>>
           ELSE /\ pendingEdits' =
                     MapSet(pendingEdits, sid,
                            IF MapHas(pendingEdits, sid)
                            THEN Append(pendingEdits[sid], batch) ELSE <<batch>>)
                /\ LET queued == [task EXCEPT !.arrived = Append(@, batch),
                                              !.queue = Enqueue(@, batch)]
                   IN  IF task.cur.active
                       THEN /\ tasks' = [tasks EXCEPT ![t] = queued]
                            /\ UNCHANGED <<textModels, editStrategies, models,
                                           disposedStrategies>>
                       ELSE Commit(ConsumeQueue([Here(t) EXCEPT !.task = queued]), t)
                /\ last' = Call("progressCallback", Session(sid), "queued")
    /\ UNCHANGED <<editResponseIdInProgress, editCodeblockInProgress, pendingRequests,
                   showDiff, codeEditors>>

\* _makeChanges goes on after `await this.getTextModels(uri)`: the task is rejected
\* when getTextModels has thrown; with an editor of the document among the listed
\* ones the strategy is made and the edit started; without one openCodeEditor is
\* called and awaited
FindCodeEditor(t) ==
    /\ tasks[t].cur.phase = "getTextModels"
    /\ LET u == EditAt(t).resource
       IN  IF tasks[t].cur.threw
           THEN /\ Commit(TaskRejected(Here(t)), t)
                /\ last' = Call("_makeChanges", u, "rejected")
           ELSE IF UriToString(u) \in codeEditors
           THEN /\ Commit(MakeChangesFrom(Here(t), t, activeEditCodeblockNumber), t)
                /\ last' = Call("_makeChanges", u, "makeProgressiveChanges")
           ELSE /\ tasks' = [tasks EXCEPT ![t].cur.phase = "openCodeEditor"]
                /\ UNCHANGED <<textModels, editStrategies, models, disposedStrategies>>
                /\ last' = Call("_makeChanges", u, "openCodeEditor")
    /\ UNCHANGED <<editResponseIdInProgress, editCodeblockInProgress, pendingRequests,
                   pendingEdits, showDiff, codeEditors>>

\* codeEditorService.openCodeEditor resolves, with an editor of the document, which
\* is listed from then on and lets the edit start, or with none: _makeChanges
\* returns, and the rest of the batch with it
OpenCodeEditor(t, editor) ==
    /\ tasks[t].cur.phase = "openCodeEditor"
    /\ LET u == EditAt(t).resource
       IN  IF editor
           THEN /\ codeEditors' = codeEditors \cup {UriToString(u)}
                /\ Commit(MakeChangesFrom(Here(t), t, activeEditCodeblockNumber), t)
                /\ last' = Call("openCodeEditor", u, "editor")
           ELSE /\ codeEditors' = codeEditors
                /\ Commit(ConsumeQueue(Here(t)), t)
                /\ last' = Call("openCodeEditor", u, "none")
    /\ UNCHANGED <<editResponseIdInProgress, editCodeblockInProgress, pendingRequests,
                   pendingEdits, showDiff>>

\* performAsyncTextEdit: the part of the progressive edit of task t written next
RevealPart(t) == Head(tasks[t].cur.rest)

\* performAsyncTextEdit: the range the next part replaces, which is the anchor of
\* the edit for the first part and the end of the anchor afterwards
RevealAt(t) ==
    LET cur == tasks[t].cur
        d   == UriToString(cur.batch[cur.i].resource)
        a   == ValidRange(cur.anchor, Len(models[d].content))
    IN  IF cur.first THEN a ELSE <<a[2], a[2]>>

\* performAsyncTextEdit: the next part of the progressive edit of task t is written
\* to the live buffer and the range it now has is collected by the decorations of
\* the strategy the task holds, or the reveal stops because the token has been
\* signalled; after the last part renderChanges asks for the diff
RevealStep(t) ==
    /\ tasks[t].cur.phase = "reveal"
    /\ LET task == tasks[t]
           cur  == task.cur
           edit == cur.batch[cur.i]
           d    == UriToString(edit.resource)
           a    == ValidRange(cur.anchor, Len(models[d].content))
           part == RevealPart(t)
           at   == RevealAt(t)
           strategy == StrategyOf(Here(t), cur.strategy[1])
           written ==
               [PutStrategy(Here(t),
                            [strategy EXCEPT !.diffDecorations =
                                CollectEditOperation(@, <<at[1], at[1] + Len(part)>>)])
                EXCEPT !.ms[d] = ModelPushEditOperations(@, at, part),
                       !.task.cur.anchor = <<a[1], at[1] + Len(part)>>,
                       !.task.cur.rest = Tail(cur.rest),
                       !.task.cur.first = FALSE,
                       !.task.cur.phase =
                           IF Tail(cur.rest) = << >> THEN "render" ELSE "reveal",
                       !.task.applied = IF cur.first THEN Append(@, edit) ELSE @]
       IN  IF task.cancelled
           THEN /\ tasks' = [tasks EXCEPT ![t].cur.phase = "render",
                                          ![t].cur.rest = << >>]
                /\ UNCHANGED <<textModels, models, editStrategies, disposedStrategies>>
                /\ last' = Call("reveal", edit.resource, "stopped")
           ELSE /\ Commit(written, t)
                /\ last' = Call("reveal", edit.resource, "written")
    /\ UNCHANGED <<editResponseIdInProgress, editCodeblockInProgress, pendingRequests,
                   pendingEdits, showDiff, codeEditors>>

\* computeDiff, which renderChanges has called and awaits: the worker takes the
\* diff of the snapshot and the live buffer as they are at some moment between
\* the call and the resolution of the promise. From then on the diff is fixed,
\* whatever happens to the buffers before the continuation of renderChanges runs
DiffArrives(t) ==
    /\ tasks[t].cur.phase = "render"
    /\ LET u == EditAt(t).resource
       IN  /\ tasks' = [tasks EXCEPT
                           ![t].cur.phase = "diff",
                           ![t].cur.diff = ComputeDiff(textModels[u].textModel0,
                                                       models[UriToString(u)].content)]
           /\ last' = Call("computeDiff", u, "")
    /\ UNCHANGED <<editResponseIdInProgress, editCodeblockInProgress, pendingRequests,
                   pendingEdits, textModels, editStrategies, models, showDiff,
                   codeEditors, disposedStrategies>>

\* renderChanges of the strategy the task holds goes on after `await computeDiff`,
\* with the diff that has arrived: the summary is recorded and the decorations
\* are updated
RenderStep(t) ==
    /\ tasks[t].cur.phase = "diff"
    /\ LET u == EditAt(t).resource
           strategy == StrategyOf(Here(t), tasks[t].cur.strategy[1])
           rendered == PutStrategy(Here(t),
                                   RenderChanges(strategy, textModels[u],
                                                 tasks[t].cur.diff))
       IN  /\ Commit([rendered EXCEPT !.task.cur.phase = "rendered",
                                      !.task.cur.diff = Undefined], t)
           /\ last' = Call("renderChanges", u, "")
    /\ UNCHANGED <<editResponseIdInProgress, editCodeblockInProgress, pendingRequests,
                   pendingEdits, showDiff, codeEditors>>

\* _makeChanges goes on after `await editStrategy.renderChanges()`: the next turn
\* of its loop starts, or it returns and the application task is over
NextEdit(t) ==
    /\ tasks[t].cur.phase = "rendered"
    /\ LET cur == tasks[t].cur
       IN  IF cur.i < Len(cur.batch)
           THEN /\ Commit(GetTextModelsOfEdit([Here(t) EXCEPT !.task.cur.i = @ + 1]), t)
                /\ last' = Call("_makeChanges", cur.batch[cur.i + 1].resource,
                                "getTextModels")
           ELSE /\ Commit(ConsumeQueue(Here(t)), t)
                /\ last' = Call("_makeChanges", cur.batch[cur.i].resource, "returned")
    /\ UNCHANGED <<editResponseIdInProgress, editCodeblockInProgress, pendingRequests,
                   pendingEdits, showDiff, codeEditors>>

\* The callback of rawResponsePromise.finally: the markers and the in-flight map
Settle(sid) ==
    /\ editResponseIdInProgress' = ""
    /\ editCodeblockInProgress' = -1
    /\ pendingRequests' = MapDelete(pendingRequests, sid)

\* csChatAgentService.makeEdits of task t returns a response, returns none or
\* throws: the finally of the callback deletes the pending list of the session,
\* and the promise is about to settle with that outcome unless the cancellation
\* has rejected it already
AgentReturn(t, outcome) ==
    /\ tasks[t].agent = "running"
    /\ pendingEdits' = MapDelete(pendingEdits, tasks[t].sessionId)
    /\ tasks' = [tasks EXCEPT ![t].agent = "returned",
                              ![t].outcome = IF @ = Undefined THEN Some(outcome) ELSE @]
    /\ last' = Call("makeEdits", Session(tasks[t].sessionId), outcome)
    /\ UNCHANGED <<editResponseIdInProgress, editCodeblockInProgress, pendingRequests,
                   textModels, editStrategies, models, showDiff,
                   codeEditors, disposedStrategies>>

\* The callback given to rawResponsePromise.finally runs, the promise of task t
\* having resolved or rejected
PromiseFinally(t) ==
    /\ tasks[t].outcome # Undefined
    /\ ~tasks[t].settled
    /\ tasks' = [tasks EXCEPT ![t].settled = TRUE]
    /\ Settle(tasks[t].sessionId)
    /\ last' = Call("settled", Session(tasks[t].sessionId), tasks[t].outcome[1])
    /\ UNCHANGED <<pendingEdits, textModels, editStrategies, models, showDiff,
                   codeEditors, disposedStrategies>>

\* CancelablePromise.cancel on the in-flight request of a session: the token is
\* signalled and the promise rejects, while the agent call goes on
CancelRequest(sid) ==
    /\ MapHas(pendingRequests, sid)
    /\ tasks' = [tasks EXCEPT ![pendingRequests[sid]].cancelled = TRUE,
                              ![pendingRequests[sid]].outcome = Some("cancelled")]
    /\ last' = Call("cancel", Session(sid), "")
    /\ UNCHANGED <<editResponseIdInProgress, editCodeblockInProgress, pendingRequests,
                   pendingEdits, textModels, editStrategies, models, showDiff,
                   codeEditors, disposedStrategies>>

\* The record of a confirmEdits call: the URI, the choice and what was called
ConfirmCall(u, apply, ret) ==
    [op |-> "confirmEdits", arg |-> u, apply |-> apply, ret |-> ret]

\* confirmEdits that accepts whatever the choice is
ConfirmAlwaysApplies(apply) == "apply"

\* confirmEdits: the method of the strategy it calls
ConfirmCalls(apply) == IF apply THEN "apply" ELSE "cancel"

\* confirmEdits
ConfirmEdits(u, apply) ==
    /\ IF ~MapHas(editStrategies, u)
       THEN /\ UNCHANGED <<editStrategies, models>>
            /\ last' = ConfirmCall(u, apply, "not found")
       ELSE LET d == UriToString(u)
                strategy == editStrategies[u]
            IN  IF ConfirmCalls(apply) = "apply"
                THEN LET out == StrategyApply(strategy, models[d])
                     IN  /\ models' = [models EXCEPT ![d] = out.m]
                         /\ editStrategies' =
                              [editStrategies EXCEPT
                                 ![u] = [out.strategy EXCEPT !.accepted =
                                            IF strategy.editCount > 0
                                            THEN Some(models[d].alt) ELSE @]]
                         /\ last' = ConfirmCall(u, apply, "apply")
                ELSE LET out == StrategyCancel(strategy, textModels[u], models[d])
                     IN  /\ models' = [models EXCEPT ![d] = out.m]
                         /\ editStrategies' = [editStrategies EXCEPT ![u] = out.strategy]
                         /\ last' = ConfirmCall(u, apply, "cancel")
    /\ UNCHANGED <<editResponseIdInProgress, editCodeblockInProgress, pendingRequests,
                   pendingEdits, textModels, tasks, showDiff,
                   codeEditors, disposedStrategies>>

\* The strategies of the registry that an executing application task holds
HeldStrategies ==
    { u \in DOMAIN editStrategies :
        \E t \in 1..Len(tasks) : tasks[t].cur.strategy = Some(editStrategies[u].id) }

\* dispose() of the service: every strategy of the registry is disposed and the
\* registry is cleared; the in-flight requests, their queues and the application
\* task that is executing are left alone, and that task keeps the strategy it
\* holds. The result recorded is the strategies as dispose() left them
Dispose ==
    /\ editStrategies' = EmptyMap
    /\ disposedStrategies' =
          [id \in (DOMAIN disposedStrategies)
                    \cup {editStrategies[u].id : u \in HeldStrategies} |->
              IF id \in DOMAIN disposedStrategies THEN disposedStrategies[id]
              ELSE StrategyDispose(
                     editStrategies[CHOOSE u \in HeldStrategies :
                                        editStrategies[u].id = id])]
    /\ last' = Call("dispose", NoArg,
                    [u \in DOMAIN editStrategies |-> StrategyDispose(editStrategies[u])])
    /\ UNCHANGED <<editResponseIdInProgress, editCodeblockInProgress, pendingRequests,
                   pendingEdits, textModels, models, tasks, showDiff, codeEditors>>

\* A configuration change that affects inlineChat.showDiff reaches the listener
\* of every strategy that has not been disposed; value is what the option reads
\* afterwards
ConfigurationChanged(value) ==
    /\ showDiff' = value
    /\ editStrategies' =
          [u \in DOMAIN editStrategies |->
              StrategyConfigurationChanged(editStrategies[u])]
    /\ disposedStrategies' =
          [id \in DOMAIN disposedStrategies |->
              StrategyConfigurationChanged(disposedStrategies[id])]
    /\ last' = Call("onDidChangeConfiguration", [value |-> value], "")
    /\ UNCHANGED <<editResponseIdInProgress, editCodeblockInProgress, pendingRequests,
                   pendingEdits, textModels, models, tasks, codeEditors>>

\* The live buffer of document d is disposed (the document is closed) once the
\* requests have streamed and no application task is left
ModelDisposed(d) ==
    /\ ~ModelIsDisposed(models[d])
    /\ \A t \in 1..Len(tasks) :
          tasks[t].agent = "returned" /\ ~tasks[t].cur.active
    /\ models' = [models EXCEPT ![d] = ModelDispose(@)]
    /\ last' = Call("dispose model", [doc |-> d], "")
    /\ UNCHANGED <<editResponseIdInProgress, editCodeblockInProgress, pendingRequests,
                   pendingEdits, textModels, editStrategies, tasks, showDiff,
                   codeEditors, disposedStrategies>>

RECURSIVE AllEditRanges(_, _, _)
\* getEditRangesInProgress(): the ranges of the strategies from the k-th on, in the
\* iteration order of the registry
AllEditRanges(es, tm, k) ==
    IF k > Cardinality(DOMAIN es) THEN << >>
    ELSE LET u == CHOOSE x \in DOMAIN es : es[x].order = k
         IN  StrategyGetEditRangesInProgress(es[u], tm[u]) \o AllEditRanges(es, tm, k + 1)

\* getEditRangesInProgress(forUri): the locations it returns
GetEditRangesInProgress(forUri) ==
    IF forUri # Undefined
    THEN IF MapHas(editStrategies, forUri[1])
         THEN StrategyGetEditRangesInProgress(editStrategies[forUri[1]],
                                              textModels[forUri[1]])
         ELSE << >>
    ELSE AllEditRanges(editStrategies, textModels, 1)

\* A call of getEditRangesInProgress
QueryEditRanges(forUri) ==
    /\ last' = Call("getEditRangesInProgress", [forUri |-> forUri],
                    GetEditRangesInProgress(forUri))
    /\ UNCHANGED <<editResponseIdInProgress, editCodeblockInProgress, pendingRequests,
                   pendingEdits, textModels, editStrategies, models, tasks, showDiff,
                   codeEditors, disposedStrategies>>

----------------------------------------------------------------------------
(* The initial state: the service as constructed, the open documents *)

\* The content of every document when the service is constructed
InitialContent == <<"p", "q">>

InitialModels ==
    { [d \in ModelDocs |-> FreshModel(InitialContent)],
      [d \in ModelDocs |-> IF d = "a" THEN TypedModel(<<"p">>, InitialContent)
                           ELSE FreshModel(InitialContent)] }

\* The fields of the service as constructed, over the live buffers ms
NewService(ms) ==
    /\ editResponseIdInProgress = ""
    /\ editCodeblockInProgress = -1
    /\ pendingRequests = EmptyMap
    /\ pendingEdits = EmptyMap
    /\ textModels = EmptyMap
    /\ editStrategies = EmptyMap
    /\ models = ms
    /\ tasks = << >>
    /\ codeEditors = EditorDocs
    /\ disposedStrategies = EmptyMap

\* The service as constructed, over the live buffers ms
Constructed(ms) ==
    /\ NewService(ms)
    /\ last = Call("constructor", NoArg, "")

Init ==
    /\ Constructed([d \in ModelDocs |-> FreshModel(InitialContent)])
    /\ showDiff = FALSE

InitAny ==
    /\ \E ms \in InitialModels : Constructed(ms)
    /\ showDiff = FALSE

Outcomes == {"response", "no response", "throws"}

Tasks == 1..Len(tasks)

\* The call is one that starts a streaming task
StartsTask(responseVM, request) ==
    /\ Len(request.context) = 1
    /\ ~MapHas(pendingRequests, responseVM.sessionId)

RECURSIVE Arrived(_)
\* The number of partial results the first n streaming tasks have accepted
Arrived(n) == IF n = 0 THEN 0 ELSE Len(tasks[n].arrived) + Arrived(n - 1)

\* One streaming request, the batches of every shape, no accept or reject
NextStream ==
    \/ \E responseVM \in ResponseVMs, request \in Requests :
          /\ tasks = << >>
          /\ SendEditRequest(responseVM, request)
    \/ \E t \in Tasks, batch \in Batches :
          /\ Len(tasks[t].arrived) < MaxBatches
          /\ AgentProgress(t, batch)
    \/ \E t \in Tasks : FindCodeEditor(t)
    \/ \E t \in Tasks, editor \in BOOLEAN : OpenCodeEditor(t, editor)
    \/ \E t \in Tasks : RevealStep(t)
    \/ \E t \in Tasks : DiffArrives(t)
    \/ \E t \in Tasks : RenderStep(t)
    \/ \E t \in Tasks : NextEdit(t)
    \/ \E t \in Tasks, outcome \in Outcomes : AgentReturn(t, outcome)
    \/ \E t \in Tasks : PromiseFinally(t)
    \/ \E sid \in DOMAIN pendingRequests : CancelRequest(sid)

SpecStream == InitAny /\ [][NextStream]_vars

\* One streaming request that is not cancelled, with accept and reject of the
\* edits, and the document closed in the end
ConfirmBatches ==
    { << TextEdit(uri("a", 1), 0, 0, <<"x">>) >>,
      << TextEdit(uri("a", 2), 0, 1, <<"y", "z">>) >> }

TheResponseVM == [id |-> "r1", sessionId |-> "s1"]

TheRequest == [context |-> <<Context(0)>>]

\* The URI objects the edits are accepted or rejected through: the two of document
\* "a" and one of a document no batch edits
ConfirmURIs == { uri("a", 1), uri("a", 2), uri("b", 1) }

NextConfirm ==
    \/ /\ tasks = << >>
       /\ SendEditRequest(TheResponseVM, TheRequest)
    \/ \E t \in Tasks, batch \in ConfirmBatches :
          /\ Len(tasks[t].arrived) < MaxConfirmBatches
          /\ AgentProgress(t, batch)
    \/ \E t \in Tasks : FindCodeEditor(t)
    \/ \E t \in Tasks : RevealStep(t)
    \/ \E t \in Tasks : DiffArrives(t)
    \/ \E t \in Tasks : RenderStep(t)
    \/ \E t \in Tasks : NextEdit(t)
    \/ \E t \in Tasks : AgentReturn(t, "response")
    \/ \E t \in Tasks : PromiseFinally(t)
    \/ \E u \in ConfirmURIs, apply \in BOOLEAN : ConfirmEdits(u, apply)
    \/ ModelDisposed("a")

SpecConfirm == InitAny /\ [][NextConfirm]_vars

\* partial results the streaming task accepts when the decorations are followed
MaxDecorBatches == 2

\* The batches whose decorations are followed: two words put after the first line
\* of "a"; a word put at the start of "a" and the first line of "b" removed
DecorBatches ==
    { << TextEdit(uri("a", 1), 1, 1, <<"x", "y">>) >>,
      << TextEdit(uri("a", 1), 0, 0, <<"w">>),
         TextEdit(uri("b", 1), 0, 1, << >>) >> }

\* The URI objects the ranges are asked for; the edits of "a" are accepted or
\* rejected through the first
DecorURIs == { uri("a", 1), uri("a", 2), uri("b", 1) }

InitDecor ==
    /\ Constructed([d \in ModelDocs |-> FreshModel(InitialContent)])
    /\ showDiff \in BOOLEAN

\* One streaming request, the decorations of its edits, the queries of the ranges
NextDecor ==
    \/ /\ tasks = << >>
       /\ SendEditRequest(TheResponseVM, TheRequest)
    \/ \E t \in Tasks, batch \in DecorBatches :
          /\ Len(tasks[t].arrived) < MaxDecorBatches
          /\ AgentProgress(t, batch)
    \/ \E t \in Tasks : FindCodeEditor(t)
    \/ \E t \in Tasks : RevealStep(t)
    \/ \E t \in Tasks : DiffArrives(t)
    \/ \E t \in Tasks : RenderStep(t)
    \/ \E t \in Tasks : NextEdit(t)
    \/ \E t \in Tasks : AgentReturn(t, "response")
    \/ \E t \in Tasks : PromiseFinally(t)
    \/ \E apply \in BOOLEAN : ConfirmEdits(uri("a", 1), apply)
    \/ \E forUri \in {Undefined} \cup {Some(u) : u \in DecorURIs} :
          QueryEditRanges(forUri)

SpecDecor == InitDecor /\ [][NextDecor]_vars

\* lines of a buffer in a diff
MaxLine == 2
\* hunks of a diff
MaxHunks == 2

\* The line ranges of a buffer of MaxLine lines, the empty ones too
LineRanges ==
    UNION { { LineRange(a, b) : b \in a..(MaxLine + 1) } : a \in 1..MaxLine }

\* The diffs computeDiff can return: null, or up to MaxHunks hunks
Diffs ==
    {Undefined} \cup
    { Some([changes |-> h]) :
        h \in UNION { [1..n -> { Change(o, m) : o \in LineRanges, m \in LineRanges }] :
                        n \in 0..MaxHunks } }

\* The state in which a strategy of code block 0 or 1 is about to summarize a diff
InitSummary ==
    /\ NewService([d \in ModelDocs |-> FreshModel(InitialContent)])
    /\ showDiff = FALSE
    /\ \E diff \in Diffs, codeblock \in {0, 1} :
          last = Call("computeDiff", [diff |-> diff, codeblock |-> codeblock], "")

\* _updateSummaryMessage on the diff
Summarize ==
    /\ last.op = "computeDiff"
    /\ last' = Call("_updateSummaryMessage", last.arg,
                    UpdateSummaryMessage(last.arg.codeblock, SnapshotUri(1),
                                         last.arg.diff))
    /\ UNCHANGED <<editResponseIdInProgress, editCodeblockInProgress, pendingRequests,
                   pendingEdits, textModels, editStrategies, models, tasks, showDiff,
                   codeEditors, disposedStrategies>>

NextSummary == Summarize

SpecSummary == InitSummary /\ [][NextSummary]_vars

\* words of a replacement text
MaxWords == 7

\* opts.duration: the average time between two partial results, in milliseconds,
\* a number that need be neither above zero nor whole (100.5 is 201 / 2)
Durations ==
    { Number(0), Number(7), Number(125), Number(250), Number(300), Number(500),
      Number(1000), Number(2000), Number(32000), Divide(Number(201), Number(2)) }

\* The state in which makeProgressiveChanges is about to reveal an edit
InitPacing ==
    /\ NewService([d \in ModelDocs |-> FreshModel(InitialContent)])
    /\ showDiff = FALSE
    /\ \E n \in 0..MaxWords, duration \in Durations :
          last = Call("opts", [text |-> [k \in 1..n |-> "w"], duration |-> duration], "")

\* makeProgressiveChanges: the speed of the reveal of the edit
Pace ==
    /\ last.op = "opts"
    /\ last' = Call("makeProgressiveChanges", last.arg,
                    Speed(CountWords(last.arg.text), last.arg.duration))
    /\ UNCHANGED <<editResponseIdInProgress, editCodeblockInProgress, pendingRequests,
                   pendingEdits, textModels, editStrategies, models, tasks, showDiff,
                   codeEditors, disposedStrategies>>

NextPacing == Pace

SpecPacing == InitPacing /\ [][NextPacing]_vars

\* The batch of the sessions: one edit of one word
SessionBatches == { << TextEdit(uri("a", 1), 0, 0, <<"x">>) >> }

\* Several requests of two sessions
Next ==
    \/ \E responseVM \in ResponseVMs, request \in Requests :
          /\ StartsTask(responseVM, request) => Len(tasks) < MaxTasks
          /\ SendEditRequest(responseVM, request)
    \/ \E t \in Tasks, batch \in SessionBatches :
          /\ Arrived(Len(tasks)) < MaxSessionBatches
          /\ AgentProgress(t, batch)
    \/ \E t \in Tasks : FindCodeEditor(t)
    \/ \E t \in Tasks : RevealStep(t)
    \/ \E t \in Tasks : DiffArrives(t)
    \/ \E t \in Tasks : RenderStep(t)
    \/ \E t \in Tasks : NextEdit(t)
    \/ \E t \in Tasks, outcome \in Outcomes : AgentReturn(t, outcome)
    \/ \E t \in Tasks : PromiseFinally(t)
    \/ \E sid \in DOMAIN pendingRequests : CancelRequest(sid)

Spec == Init /\ [][Next]_vars

----------------------------------------------------------------------------
(* The decoration tracker on its own *)

\* ranges the decoration tracker is given
MaxTracked == 3

\* The resulting ranges of applied edits: an empty one and two that are not
TrackedRanges == { <<0, 0>>, <<0, 1>>, <<1, 3>> }

\* A decoration tracker has just been made for an editor view; last.ret is the
\* tracker after the last operation on it
InitTracker ==
    /\ NewService([d \in ModelDocs |-> FreshModel(InitialContent)])
    /\ showDiff = FALSE
    /\ \E visible \in BOOLEAN :
          last = Call("new CSChatEditsDiffDecorations", [visible |-> visible],
                      NewDiffDecorations(visible))

\* tracker.visible = value
TrackerSetVisible(value) ==
    /\ last' = Call("set visible", [value |-> value],
                    DecorationsSetVisible(last.ret, value))
    /\ UNCHANGED <<editResponseIdInProgress, editCodeblockInProgress, pendingRequests,
                   pendingEdits, textModels, editStrategies, models, tasks, showDiff,
                   codeEditors, disposedStrategies>>

\* tracker.update()
TrackerUpdate ==
    /\ last' = Call("update", NoArg, DecorationsUpdate(last.ret))
    /\ UNCHANGED <<editResponseIdInProgress, editCodeblockInProgress, pendingRequests,
                   pendingEdits, textModels, editStrategies, models, tasks, showDiff,
                   codeEditors, disposedStrategies>>

\* tracker.clear()
TrackerClear ==
    /\ last' = Call("clear", NoArg, DecorationsClear(last.ret))
    /\ UNCHANGED <<editResponseIdInProgress, editCodeblockInProgress, pendingRequests,
                   pendingEdits, textModels, editStrategies, models, tasks, showDiff,
                   codeEditors, disposedStrategies>>

\* tracker.collectEditOperation(op), op.range being range
TrackerCollect(range) ==
    /\ Len(last.ret.data) < MaxTracked
    /\ last' = Call("collectEditOperation", [range |-> range],
                    CollectEditOperation(last.ret, range))
    /\ UNCHANGED <<editResponseIdInProgress, editCodeblockInProgress, pendingRequests,
                   pendingEdits, textModels, editStrategies, models, tasks, showDiff,
                   codeEditors, disposedStrategies>>

NextTracker ==
    \/ \E value \in BOOLEAN : TrackerSetVisible(value)
    \/ TrackerUpdate
    \/ TrackerClear
    \/ \E range \in TrackedRanges : TrackerCollect(range)

SpecTracker == InitTracker /\ [][NextTracker]_vars

----------------------------------------------------------------------------
(* The rewind of a live buffer *)

\* edits in the history of the buffer that undoChanges rewinds
MaxEdits == 4

RECURSIVE Histories(_)
\* The buffers that up to n edits leave, each edit recorded in the open undo
\* element or, after an undo stop, in a new one
Histories(n) ==
    IF n = 0 THEN {FreshModel(InitialContent)}
    ELSE LET prev == Histories(n - 1)
         IN  prev
             \cup { ModelPushEditOperations(m, <<0, 0>>, <<"x">>) : m \in prev }
             \cup { ModelPushEditOperations(ModelPushStackElement(m), <<0, 0>>, <<"x">>) :
                      m \in prev }

\* A strategy has just been made for document "a", whose live buffer has a history
\* of edits
InitUndo ==
    /\ \E m \in Histories(MaxEdits) :
          LET u == uri("a", 1) IN
          /\ models = [d \in ModelDocs |-> IF d = "a" THEN m
                                           ELSE FreshModel(InitialContent)]
          /\ textModels = GetTextModels(EmptyMap, u, m)
          /\ editStrategies =
                MapSet(EmptyMap, u, NewLiveStrategy(Some(0), 0, FALSE, 1, <<0, 1, 1>>))
    /\ editResponseIdInProgress = ""
    /\ editCodeblockInProgress = -1
    /\ pendingRequests = EmptyMap
    /\ pendingEdits = EmptyMap
    /\ tasks = << >>
    /\ codeEditors = EditorDocs
    /\ disposedStrategies = EmptyMap
    /\ showDiff = FALSE
    /\ last = Call("new LiveStrategy", NoArg, "")

\* undoChanges(altVersionId) of the strategy of document "a"; current is the
\* alternative version id of the buffer when the call is made
UndoChanges(altVersionId) ==
    /\ models' = [models EXCEPT !["a"] = StrategyUndoChanges(@, altVersionId)]
    /\ last' = Call("undoChanges",
                    [altVersionId |-> altVersionId, current |-> models["a"].alt], "")
    /\ UNCHANGED <<editResponseIdInProgress, editCodeblockInProgress, pendingRequests,
                   pendingEdits, textModels, editStrategies, tasks, showDiff,
                   codeEditors, disposedStrategies>>

\* makeChanges([edit]) of the strategy of document "a": the discrete application
\* of an edit, which no call of the service makes
MakeChanges(edit) ==
    /\ models["a"].ver <= MaxEdits
    /\ LET u   == uri("a", 1)
           out == StrategyMakeChanges(editStrategies[u], models["a"], edit)
       IN  /\ editStrategies' = [editStrategies EXCEPT ![u] = out.strategy]
           /\ models' = [models EXCEPT !["a"] = out.m]
           /\ last' = Call("makeChanges", [edit |-> edit], out.revealPositionInCenter)
    /\ UNCHANGED <<editResponseIdInProgress, editCodeblockInProgress, pendingRequests,
                   pendingEdits, textModels, tasks, showDiff,
                   codeEditors, disposedStrategies>>

\* The edits given to makeChanges
DiscreteEdits ==
    { TextEdit(uri("a", 1), 0, 0, <<"x">>), TextEdit(uri("a", 1), 1, 2, << >>) }

NextUndo ==
    \/ \E altVersionId \in 0..(MaxEdits + 2) : UndoChanges(altVersionId)
    \/ \E edit \in DiscreteEdits : MakeChanges(edit)

SpecUndo == InitUndo /\ [][NextUndo]_vars

----------------------------------------------------------------------------
(* Configuration changes and teardown *)

\* partial results the streaming task accepts when the service is torn down
MaxLifecycleBatches == 2

\* The batch: a word put at the start of "a", then the first line of "b" removed
LifecycleBatches ==
    { << TextEdit(uri("a", 1), 0, 0, <<"x">>),
         TextEdit(uri("b", 1), 0, 1, << >>) >> }

\* One streaming request, configuration changes and the teardown of the service
NextLifecycle ==
    \/ /\ tasks = << >>
       /\ SendEditRequest(TheResponseVM, TheRequest)
    \/ \E t \in Tasks, batch \in LifecycleBatches :
          /\ Len(tasks[t].arrived) < MaxLifecycleBatches
          /\ AgentProgress(t, batch)
    \/ \E t \in Tasks : FindCodeEditor(t)
    \/ \E t \in Tasks : RevealStep(t)
    \/ \E t \in Tasks : DiffArrives(t)
    \/ \E t \in Tasks : RenderStep(t)
    \/ \E t \in Tasks : NextEdit(t)
    \/ \E t \in Tasks : AgentReturn(t, "response")
    \/ \E t \in Tasks : PromiseFinally(t)
    \/ \E value \in BOOLEAN : ConfigurationChanged(value)
    \/ Dispose

SpecLifecycle == Init /\ [][NextLifecycle]_vars

\* partial results the streaming tasks accept in all when the service is torn down
\* under the requests of two sessions
MaxTeardownBatches == 2

\* The batches: two words put after the first line of "a"; a word put at the start
\* of "a"
TeardownBatches ==
    { << TextEdit(uri("a", 1), 1, 1, <<"x", "y">>) >>,
      << TextEdit(uri("a", 1), 0, 0, <<"w">>) >> }

\* The requests of two sessions, the second for code block 1, and the teardown of
\* the service
NextTeardown ==
    \/ \E responseVM \in ResponseVMs :
          /\ Len(tasks) < MaxTasks
          /\ responseVM.id = (IF tasks = << >> THEN "r1" ELSE "r2")
          /\ SendEditRequest(responseVM, [context |-> <<Context(Len(tasks))>>])
    \/ \E t \in Tasks, batch \in TeardownBatches :
          /\ Arrived(Len(tasks)) < MaxTeardownBatches
          /\ AgentProgress(t, batch)
    \/ \E t \in Tasks : FindCodeEditor(t)
    \/ \E t \in Tasks : RevealStep(t)
    \/ \E t \in Tasks : DiffArrives(t)
    \/ \E t \in Tasks : RenderStep(t)
    \/ \E t \in Tasks : NextEdit(t)
    \/ \E t \in Tasks : AgentReturn(t, "response")
    \/ \E t \in Tasks : PromiseFinally(t)
    \/ Dispose

SpecTeardown == Init /\ [][NextTeardown]_vars

----------------------------------------------------------------------------
(* CodeGraph.loadFromStorage *)

\* code symbols in the storage
MaxStored == 2

\* nodes of the graph when addNodes is called
MaxNodes == 2

\* loadFromStorage calls that are suspended at a time
MaxLoads == 2

\* A Set of JavaScript, in insertion order
SetHas(set, x) == \E k \in 1..Len(set) : set[k] = x

SetAdd(set, x) == IF SetHas(set, x) THEN set ELSE Append(set, x)

RECURSIVE SetDelete(_, _)
SetDelete(set, x) ==
    IF set = << >> THEN << >>
    ELSE IF Head(set) = x THEN SetDelete(Tail(set), x)
    ELSE <<Head(set)>> \o SetDelete(Tail(set), x)

RECURSIVE SetAddAll(_, _)
SetAddAll(set, xs) ==
    IF xs = << >> THEN set ELSE SetAddAll(SetAdd(set, Head(xs)), Tail(xs))

\* The files of the working directory and the sha256 of what they hold now; a
\* file "D" is not there
FileContentHash == [A |-> "h1", B |-> "h1"]

\* CodeGraphCodeSymbolInformation, as far as loadFromStorage reads it
StoredSymbol(symbolName, fsFilePath, fileHash) ==
    [symbolName |-> symbolName, fsFilePath |-> fsFilePath, fileHash |-> fileHash]

\* The symbols a storage can hold: of the files "A" and "B" and of a file "D" that
\* is gone, stored with the hash the file has now or with an older one
StoredSymbols ==
    { StoredSymbol(n, f, h) : n \in {"f", "g"}, f \in {"A", "B", "D"}, h \in {"h1", "h0"} }

\* filesToTrack
TrackedLists ==
    { << >>, <<"A">>, <<"B">>, <<"A", "B">>, <<"B", "A">>, <<"A", "A">>, <<"D">>,
      <<"A", "D">> }

\* The first loop: every tracked file is hashed and needs indexing to begin with
FilesWhichNeedIndexing(filesToTrack) == SetAddAll(<< >>, filesToTrack)

\* The sets of the second loop before its first turn
ScanStart(filesToTrack) ==
    [ filesWhichNeedIndexing |-> FilesWhichNeedIndexing(filesToTrack),
      filesToReIndex |-> << >>,
      nodesToEvict   |-> << >> ]

RECURSIVE ScanStored(_, _, _)
\* The second loop over the stored symbols
ScanStored(list, filesToTrack, sets) ==
    IF list = << >> THEN sets
    ELSE LET codeSymbolInformation == Head(list)
             currentFilePath == codeSymbolInformation.fsFilePath
             currentFileHash == codeSymbolInformation.fileHash
         IN  ScanStored(Tail(list), filesToTrack,
               IF SetHas(filesToTrack, currentFilePath)
               THEN IF FileContentHash[currentFilePath] = currentFileHash
                    THEN [sets EXCEPT !.filesWhichNeedIndexing =
                                          SetDelete(@, currentFilePath)]
                    ELSE [sets EXCEPT !.filesToReIndex = SetAdd(@, currentFilePath),
                                      !.nodesToEvict =
                                          SetAdd(@, codeSymbolInformation.symbolName)]
               ELSE [sets EXCEPT !.nodesToEvict =
                                     SetAdd(@, codeSymbolInformation.symbolName)])

RECURSIVE FinalNodes(_, _)
\* codeSymbolInformationList.filter: the symbols whose name is not to be evicted
FinalNodes(list, nodesToEvict) ==
    IF list = << >> THEN << >>
    ELSE (IF SetHas(nodesToEvict, Head(list).symbolName) THEN << >> ELSE <<Head(list)>>)
         \o FinalNodes(Tail(list), nodesToEvict)

\* loadFromStorage(filesToTrack), the storage holding codeSymbolInformationList:
\* the nodes of the graph afterwards and the files it returns
LoadFromStorage(codeSymbolInformationList, filesToTrack) ==
    LET sets == ScanStored(codeSymbolInformationList, filesToTrack,
                           ScanStart(filesToTrack))
    IN  [ nodes |-> FinalNodes(codeSymbolInformationList, sets.nodesToEvict),
          files |-> SetAddAll(sets.filesWhichNeedIndexing, sets.filesToReIndex) ]

\* A code graph has been constructed over a storage and a working directory: it
\* has no node, and no load is under way. last.ret is the graph, the filesToTrack
\* of the loadFromStorage calls that are suspended (loading, in the order of the
\* calls) and, of the last operation on the graph, the files loadFromStorage has
\* returned and how its promise is (settled)
InitGraph ==
    /\ NewService([d \in ModelDocs |-> FreshModel(InitialContent)])
    /\ showDiff = FALSE
    /\ \E n \in 0..MaxStored :
         \E stored \in [1..n -> StoredSymbols] :
            last = Call("new CodeGraph", [stored |-> stored, filesToTrack |-> << >>],
                        [ nodes |-> << >>, loading |-> << >>,
                          files |-> << >>, settled |-> "" ])

\* graph.addNodes(nodes): the nodes are pushed to the array the graph has now
AddNodes(nodes) ==
    /\ Len(last.ret.nodes) < MaxNodes
    /\ last' = Call("addNodes", [last.arg EXCEPT !.filesToTrack = << >>],
                    [last.ret EXCEPT !.nodes = @ \o nodes,
                                     !.files = << >>,
                                     !.settled = ""])
    /\ UNCHANGED <<editResponseIdInProgress, editCodeblockInProgress, pendingRequests,
                   pendingEdits, textModels, editStrategies, models, tasks, showDiff,
                   codeEditors, disposedStrategies>>

\* graph.loadFromStorage(filesToTrack) is called, whether or not other calls are
\* suspended: it suspends at the read of the storage with the graph untouched
LoadGraph(filesToTrack) ==
    /\ Len(last.ret.loading) < MaxLoads
    /\ last' = Call("loadFromStorage", [last.arg EXCEPT !.filesToTrack = filesToTrack],
                    [last.ret EXCEPT !.loading = Append(@, filesToTrack),
                                     !.files = << >>,
                                     !.settled = "pending"])
    /\ UNCHANGED <<editResponseIdInProgress, editCodeblockInProgress, pendingRequests,
                   pendingEdits, textModels, editStrategies, models, tasks, showDiff,
                   codeEditors, disposedStrategies>>

\* The k-th suspended loadFromStorage call goes on after its last await, before or
\* after the calls that are suspended with it. The first loop reads every tracked
\* file outside any try, so that the read of a file that is not there has
\* rejected the call, which returns no file, whatever another call has returned
\* meanwhile, the nodes being what they were; otherwise the second loop runs, the
\* nodes of the graph become the stored symbols that are kept, whatever addNodes
\* has pushed and whatever another call has assigned since the call, and the
\* files to index are returned
LoadSettles(k) ==
    /\ k \in 1..Len(last.ret.loading)
    /\ LET filesToTrack == last.ret.loading[k]
           loading == [j \in 1..(Len(last.ret.loading) - 1) |->
                          last.ret.loading[IF j < k THEN j ELSE j + 1]]
           arg == [last.arg EXCEPT !.filesToTrack = filesToTrack]
           out == LoadFromStorage(last.arg.stored, filesToTrack)
           readable == \A j \in 1..Len(filesToTrack) :
                          filesToTrack[j] \in DOMAIN FileContentHash
       IN  IF readable
           THEN last' = Call("loadFromStorage", arg,
                             [ nodes |-> out.nodes, loading |-> loading,
                               files |-> out.files, settled |-> "resolved" ])
           ELSE last' = Call("loadFromStorage", arg,
                             [last.ret EXCEPT !.loading = loading,
                                              !.files = << >>,
                                              !.settled = "rejected"])
    /\ UNCHANGED <<editResponseIdInProgress, editCodeblockInProgress, pendingRequests,
                   pendingEdits, textModels, editStrategies, models, tasks, showDiff,
                   codeEditors, disposedStrategies>>

NextGraph ==
    \/ AddNodes(<< StoredSymbol("n", "A", "h1") >>)
    \/ \E filesToTrack \in TrackedLists : LoadGraph(filesToTrack)
    \/ \E k \in 1..MaxLoads : LoadSettles(k)

SpecGraph == InitGraph /\ [][NextGraph]_vars

----------------------------------------------------------------------------
(* The requests of a session *)

\* The streaming tasks of session sid whose promise has not settled
InFlight(sid) == {t \in Tasks : tasks[t].sessionId = sid /\ ~tasks[t].settled}

SessionIds == {vm.sessionId : vm \in ResponseVMs}

\* The in-flight map names exactly the unsettled streaming task of each session
AtMostOneInFlight ==
    \A sid \in SessionIds :
        /\ Cardinality(InFlight(sid)) <= 1
        /\ InFlight(sid) =
             IF MapHas(pendingRequests, sid) THEN {pendingRequests[sid]} ELSE {}

\* The step is a sendEditRequest call for a session that has a request in flight
DuplicateCall ==
    /\ last'.op = "sendEditRequest"
    /\ InFlight(last'.arg.sessionId) # {}

\* C1: every session has at most one edit request in flight, and a sendEditRequest
\* call made while its session has a request in flight returns undefined and starts
\* no streaming task.
C1_OneInFlightPerSession ==
    [][ /\ AtMostOneInFlight'
        /\ DuplicateCall => (last'.ret = "undefined" /\ tasks' = tasks) ]_vars

\* A second request of a session has been turned down while the first is in
\* flight, after an earlier request of the session was cancelled
C1_Witness ==
    /\ last.op = "sendEditRequest"
    /\ last.arg.contexts = 1
    /\ last.ret = "undefined"
    /\ Len(tasks) = 2
    /\ tasks[1].sessionId = tasks[2].sessionId
    /\ InFlight(last.arg.sessionId) = {2}

\* C2: a sendEditRequest call that is rejected because its session has a request in
\* flight leaves the in-flight map, the pending lists and both in-progress markers
\* as they were.
C2_RejectedCallChangesNothing ==
    [][ (DuplicateCall /\ last'.arg.contexts = 1) =>
            UNCHANGED <<pendingRequests, pendingEdits, editResponseIdInProgress,
                        editCodeblockInProgress>> ]_vars

\* C4: right after an accepted request has settled, by any exit path, its session
\* has no entry in the in-flight map and no pending list, and both markers are reset.
C4_SettledLeavesNothing ==
    last.op = "settled" =>
        /\ ~MapHas(pendingRequests, last.arg.sessionId)
        /\ ~MapHas(pendingEdits, last.arg.sessionId)
        /\ editResponseIdInProgress = ""
        /\ editCodeblockInProgress = -1

\* C5: sendEditRequest with a context list that does not hold exactly one element
\* returns undefined, changes no state and starts no streaming task.
C5_InvalidRequestChangesNothing ==
    [][ (last'.op = "sendEditRequest" /\ last'.arg.contexts # 1) =>
            /\ last'.ret = "undefined"
            /\ UNCHANGED <<editResponseIdInProgress, editCodeblockInProgress,
                           pendingRequests, pendingEdits, textModels, editStrategies,
                           models, tasks>> ]_vars

\* A request with two contexts has been turned down while a request is in flight
\* and its first edit is being revealed
C5_Witness ==
    /\ last.op = "sendEditRequest"
    /\ last.arg.contexts = 2
    /\ last.ret = "undefined"
    /\ editResponseIdInProgress # ""
    /\ \E t \in Tasks : tasks[t].cur.phase = "reveal"

----------------------------------------------------------------------------
(* The application of the batches of one request *)

RECURSIVE Flatten(_)
\* The edits of a list of batches, in order
Flatten(batches) ==
    IF batches = << >> THEN << >> ELSE Head(batches) \o Flatten(Tail(batches))

RECURSIVE ApplyAll(_, _)
\* The content with the edits applied one after the other
ApplyAll(content, edits) ==
    IF edits = << >> THEN content
    ELSE ApplyAll(ReplaceRange(content, Head(edits).range, Head(edits).text), Tail(edits))

\* Every edit of the batches targets document d
AllTarget(batches, d) ==
    \A k \in 1..Len(Flatten(batches)) : UriToString(Flatten(batches)[k].resource) = d

\* Every application task queued by streaming task t has completed
AllApplied(t) == ~tasks[t].cur.active /\ tasks[t].queue = << >>

\* C3: when one request has delivered batches that all target a document with a live
\* buffer and an editor view, and every queued application task has completed
\* without cancellation, the live buffer holds the starting content with the edits
\* of all the batches applied in the order the batches arrived.
C3_BatchesAppliedInArrivalOrder ==
    \A t \in Tasks : \A d \in ModelDocs \cap EditorDocs :
        (AllApplied(t) /\ ~tasks[t].cancelled /\ AllTarget(tasks[t].arrived, d)) =>
            models[d].content = ApplyAll(InitialContent, Flatten(tasks[t].arrived))

\* Three batches for document "a" have been applied, the first two of them
\* different, and the agent call has returned
C3_Witness ==
    /\ Len(tasks) = 1
    /\ AllApplied(1) /\ ~tasks[1].cancelled /\ tasks[1].agent = "returned"
    /\ Len(tasks[1].arrived) = 3
    /\ tasks[1].arrived[1] # tasks[1].arrived[2]
    /\ AllTarget(tasks[1].arrived, "a")
    /\ Len(tasks[1].done) = 3

\* The edit can be applied: its document has a live buffer and a listed editor
Applicable(edit) == UriToString(edit.resource) \in ModelDocs \cap EditorDocs

\* C8: an application task that was not cancelled and is over has applied every
\* edit of its batch whose document has a live buffer and an editor, whatever
\* other edits the batch holds.
C8_FailingEditSkipsOnlyItself ==
    \A t \in Tasks :
        ~tasks[t].cancelled =>
            \A k \in 1..Len(tasks[t].done) :
                SelectSeq(tasks[t].done[k], Applicable)
                    = SelectSeq(tasks[t].arrived[k], Applicable)

\* C9: no document has two strategies or two buffer pairs.
C9_OneStrategyPerDocument ==
    /\ \A u1, u2 \in DOMAIN editStrategies :
           UriToString(u1) = UriToString(u2) => u1 = u2
    /\ \A u1, u2 \in DOMAIN textModels :
           UriToString(u1) = UriToString(u2) => u1 = u2

----------------------------------------------------------------------------
(* Accept and reject *)

\* The last operation was cancel() on the strategy of URI u
Cancelled(u) ==
    /\ last.op = "confirmEdits" /\ last.ret = "cancel"
    /\ last.arg = u

\* C6: right after cancel() on a strategy that was never accepted and whose live
\* buffer is not disposed, the live buffer holds the content of the original
\* snapshot of the strategy's buffer pair.
C6_CancelRestoresSnapshot ==
    \A u \in DOMAIN editStrategies :
        ( /\ Cancelled(u)
          /\ editStrategies[u].accepted = Undefined
          /\ ~ModelIsDisposed(models[UriToString(u)]) ) =>
            models[UriToString(u)].content = textModels[u].textModel0

\* C7: right after cancel() on a strategy whose edits were accepted and whose live
\* buffer is not disposed, the live buffer is not behind the version it had when
\* the edits were accepted.
C7_CancelKeepsAcceptedEdits ==
    \A u \in DOMAIN editStrategies :
        ( /\ Cancelled(u)
          /\ editStrategies[u].accepted # Undefined
          /\ ~ModelIsDisposed(models[UriToString(u)]) ) =>
            models[UriToString(u)].alt >= editStrategies[u].accepted[1]

\* The step changes the content of the live buffer of document d
Mutates(d) == models'[d].content # models[d].content

\* The step is an operation of a strategy that is bound to document d
ByStrategyOf(d) ==
    /\ last'.op \in {"reveal", "confirmEdits"}
    /\ MapHas(editStrategies, last'.arg)
    /\ textModels[last'.arg].textModelN = d

\* C10: a buffer pair is created with the content of its live buffer as original
\* snapshot, no operation changes or removes it afterwards, and a live buffer
\* changes only in an operation of a strategy bound to it.
C10_SnapshotIsFrozen ==
    [][ /\ \A u \in DOMAIN textModels :
              MapHas(textModels', u) /\ textModels'[u] = textModels[u]
        /\ \A u \in (DOMAIN textModels') \ (DOMAIN textModels) :
              /\ textModels'[u].textModelN = UriToString(u)
              /\ textModels'[u].textModel0 = models[UriToString(u)].content
              /\ textModels'[u].textModel0 = models'[UriToString(u)].content
        /\ \A d \in ModelDocs : Mutates(d) => ByStrategyOf(d) ]_vars

\* The live buffer of "a" differs from the original snapshot of a pair of "a" after
\* edits, an accept and a reject
C10_Witness ==
    /\ MapHas(editStrategies, uri("a", 1))
    /\ editStrategies[uri("a", 1)].accepted # Undefined
    /\ Len(tasks[1].done) = 2
    /\ textModels[uri("a", 1)].textModel0 = InitialContent
    /\ models["a"].content # InitialContent
    /\ last.op = "confirmEdits" /\ last.ret = "cancel"

----------------------------------------------------------------------------
(* Cancellation and completion of a request *)

\* The list of pending batches of session sid has not grown in the step
PendingNotGrown(sid) ==
    MapHas(pendingEdits', sid) =>
        (MapHas(pendingEdits, sid) /\ pendingEdits'[sid] = pendingEdits[sid])

\* The application tasks of streaming task t that are over after the step and had
\* not started before it
StartedAndOver(t) ==
    { k \in 1..Len(tasks'[t].done) :
          k > Len(tasks[t].done) + (IF tasks[t].cur.active THEN 1 ELSE 0) }

\* C11: once the token of a request has been signalled, no partial-result callback
\* makes the pending list of its session grow or queues a batch, no step other than
\* the reveal in progress changes the content of a live buffer (so the text applied
\* before the signal stays), and every queued application task that had not started
\* finishes without applying an edit.
C11_CancelledRequestAppliesNothing ==
    [][ \A t \in Tasks :
          tasks'[t].cancelled =>
              /\ PendingNotGrown(tasks[t].sessionId)
              /\ tasks'[t].arrived = tasks[t].arrived
              /\ last'.op # "reveal" =>
                     \A d \in ModelDocs : models'[d].content = models[d].content
              /\ \A k \in StartedAndOver(t) : tasks'[t].done[k] = << >> ]_vars

\* A partial result has been ignored after the signal; the first batch had been
\* applied and its text is still there, the second was queued and has been skipped
C11_Witness ==
    /\ Len(tasks) = 1 /\ tasks[1].cancelled
    /\ last.op = "progressCallback" /\ last.ret = "ignored"
    /\ Len(tasks[1].arrived) = 2 /\ Len(tasks[1].done) = 2
    /\ tasks[1].done[1] # << >> /\ tasks[1].done[2] = << >>
    /\ Applicable(tasks[1].arrived[2][1])
    /\ models["a"].content # InitialContent

\* C12: when the handle of a request resolves (the agent call has returned, with a
\* response or none, and the request was not cancelled), every application task
\* queued for the request has finished.
C12_ResolvedMeansApplied ==
    \A t \in Tasks :
        ( /\ last.op = "settled"
          /\ last.ret \in {"response", "no response"}
          /\ last.arg.sessionId = tasks[t].sessionId ) => AllApplied(t)

----------------------------------------------------------------------------
(* The decorations of the edits *)

\* The edit of range at lies before range r in the buffer
Before(at, r) == at[2] < r[1]

\* Range r once n atoms have replaced range at before it
Shifted(r, at, n) ==
    LET delta == n - (at[2] - at[1]) IN <<r[1] + delta, r[2] + delta>>

\* The step writes the next part of an edit of streaming task t to a live buffer
Writes(t) ==
    /\ tasks[t].cur.phase = "reveal"
    /\ last'.op = "reveal" /\ last'.ret = "written"
    /\ tasks'[t] # tasks[t]

\* C13: when a part of a later edit is written before a range that a strategy of
\* the same buffer tracks, the range the strategy reports for the earlier edit moves
\* by the length the buffer gained or lost.
C13_RangesFollowTheBuffer ==
    [][ \A t \in Tasks : \A u \in DOMAIN editStrategies :
          ( /\ Writes(t)
            /\ UriToString(u) = UriToString(tasks[t].cur.batch[tasks[t].cur.i].resource) )
          => \A k \in 1..Len(editStrategies[u].diffDecorations.data) :
                LET r == DecorationRanges(editStrategies[u].diffDecorations)[k]
                IN  Before(RevealAt(t), r) =>
                       DecorationRanges(editStrategies'[u].diffDecorations)[k] =
                           Shifted(r, RevealAt(t), Len(RevealPart(t))) ]_vars

\* The strategy of URI u after renderChanges() in the current state
Rendered(strategy, u) ==
    RenderChanges(strategy, textModels[u],
                  ComputeDiff(textModels[u].textModel0, models[UriToString(u)].content))

\* C14: in every state and for every strategy, a second renderChanges() right after
\* a first one leaves the summary recorded on the response and the decorations of
\* the view (ranges and options) as the first call left them, and changes nothing
\* else of the strategy.
C14_RenderChangesIdempotent ==
    \A u \in DOMAIN editStrategies :
        LET once  == Rendered(editStrategies[u], u)
            twice == Rendered(once, u)
        IN  /\ twice.published = once.published
            /\ twice.diffDecorations.collection = once.diffDecorations.collection
            /\ twice = once

\* A strategy whose decorations are shown tracks two ranges the view does not have
\* yet, and a summary is to be recorded: renderChanges() changes the strategy
C14_Witness ==
    \E u \in DOMAIN editStrategies :
        /\ editStrategies[u].diffDecorations.visible
        /\ Len(editStrategies[u].diffDecorations.data) >= 2
        /\ Len(editStrategies[u].diffDecorations.collection) <
              Len(editStrategies[u].diffDecorations.data)
        /\ Rendered(editStrategies[u], u) # editStrategies[u]
        /\ Rendered(editStrategies[u], u).published # Undefined

----------------------------------------------------------------------------
(* The summary and the pacing *)

RECURSIVE TotalChangedLines(_)
\* The changed lines of a list of hunks
TotalChangedLines(changes) ==
    IF changes = << >> THEN 0
    ELSE Max(Head(changes).original.endLineNumberExclusive
                 - Head(changes).original.startLineNumber,
             Head(changes).modified.endLineNumberExclusive
                 - Head(changes).modified.startLineNumber)
         + TotalChangedLines(Tail(changes))

\* The changed lines of a diff, none for a null diff
ChangedLines(diff) ==
    IF diff = Undefined THEN 0 ELSE TotalChangedLines(diff[1].changes)

\* C15: the summary message of a diff is "Nothing changed" when its hunks change no
\* line in all (or the diff is null), "Changed 1 line" when they change one, and
\* "Changed n lines" with the number for n when they change two or more.
C15_SummaryMessageByLineCount ==
    last.op = "_updateSummaryMessage" =>
        LET n == ChangedLines(last.arg.diff)
        IN  /\ n = 0 => last.ret.message = "Nothing changed"
            /\ n = 1 => last.ret.message = "Changed 1 line"
            /\ n >= 2 => last.ret.message = "Changed " \o ToString(n) \o " lines"

\* A diff of two hunks, of one and of two changed lines, has been summarized
C15_Witness ==
    /\ last.op = "_updateSummaryMessage"
    /\ last.arg.diff # Undefined
    /\ Len(last.arg.diff[1].changes) = 2
    /\ last.arg.diff[1].changes[1].changedLineCount = 1
    /\ last.arg.diff[1].changes[2].changedLineCount = 2
    /\ last.ret.message = "Changed 3 lines"

\* The integer part of x * 2^16 for a finite double x
ScaledFloor(x) ==
    IF x.exp + 16 >= 0 THEN IntegerOf([x EXCEPT !.exp = @ + 16])
    ELSE IF Len(x.mant) + x.exp + 16 <= 0 THEN 0
    ELSE IntegerOf([x EXCEPT !.mant = SubSeq(@, 1, Len(@) + x.exp + 16), !.exp = 0])

\* The integer part of n * 1000 * 2^16 / d for a duration d above zero, which is
\* mant * 2^exp, computed in the integers
ExactSpeedFloor(n, d) ==
    LET mant == IntegerOf([d EXCEPT !.exp = 0])
    IN  IF d.exp < 0 THEN (n * 1000 * 2^(16 - d.exp)) \div mant
        ELSE (n * 1000 * 2^16) \div (mant * 2^d.exp)

\* C16: the speed makeProgressiveChanges gives to the progressive edit is the word
\* count of the replacement text divided by the duration in seconds, for every
\* duration above zero: it is the number wordCount / (d / 1000), a finite one that
\* differs from the exact quotient by less than a unit of the sixteenth binary
\* place, and 5 words give exactly 5 words per second for 1000 ms and exactly 10
\* for 500 ms.
C16_SpeedIsWordsPerSecond ==
    ( /\ last.op = "makeProgressiveChanges"
      /\ last.arg.duration.kind = "finite" /\ last.arg.duration.mant # << >> ) =>
        LET words == Len(last.arg.text)
            d     == last.arg.duration
            floor == ScaledFloor(last.ret)
            exact == ExactSpeedFloor(words, d)
        IN  /\ last.ret = Divide(Number(words), Divide(d, Number(1000)))
            /\ last.ret.kind = "finite"
            /\ floor \in {exact - 1, exact, exact + 1}
            /\ (words = 5 /\ d = Number(1000)) => last.ret = Number(5)
            /\ (words = 5 /\ d = Number(500)) => last.ret = Number(10)

\* The speed of a text of 7 words has been computed for 300 ms: the double
\* 3283874728290987 / 2^47, which is 23.333333333333336 as the two divisions
\* round it
C16_Witness ==
    /\ last.op = "makeProgressiveChanges"
    /\ Len(last.arg.text) = 7 /\ last.arg.duration = Number(300)
    /\ ScaledFloor(last.ret) \div 2^16 = 23
    /\ last.ret.exp = 0 - 47
    /\ Len(last.ret.mant) = 52
    /\ SubSeq(last.ret.mant, 49, 52) = <<1, 0, 1, 1>>

----------------------------------------------------------------------------
(* The operations of the registry *)

\* The step leaves the live buffer of document d as apply() of a strategy that has
\* applied an edit (edited) leaves it: content and undo stack are kept, and the open
\* undo element is closed when an edit was applied
AsApplyLeaves(d, edited) ==
    /\ models'[d].content = models[d].content
    /\ models'[d].undo = models[d].undo
    /\ models'[d].alt = models[d].alt
    /\ models'[d].open = (models[d].open /\ ~edited)

\* The step leaves the live buffer of document d as cancel() of a strategy bound to
\* the pair leaves it: at or below the version of the pair, or with nothing to undo
AsCancelLeaves(d, pair) ==
    /\ models'[d].alt <= pair.textModelNAltVersion \/ models'[d].undo = << >>
    /\ models[d].alt <= pair.textModelNAltVersion => models'[d] = models[d]

\* Decorations d track no range and show nothing
DecorationsCleared(d) ==
    /\ d.data = << >>
    /\ d.collection = << >>

\* C17: confirmEdits for a URI that has no strategy in the registry returns at once
\* and changes no buffer, no strategy, no decoration and no entry of the registry;
\* for a URI that has a strategy it calls apply() of that strategy when the choice
\* is to accept and cancel() of that strategy when it is to reject (which does
\* nothing when the live buffer is disposed), and touches no other strategy and no
\* other buffer.
C17_ConfirmEditsDispatch ==
    [][ last'.op = "confirmEdits" =>
          LET u == last'.arg
              d == UriToString(u)
          IN  /\ UNCHANGED <<textModels, tasks, pendingRequests, pendingEdits>>
              /\ DOMAIN editStrategies' = DOMAIN editStrategies
              /\ IF ~MapHas(editStrategies, u)
                 THEN /\ last'.ret = "not found"
                      /\ UNCHANGED <<models, editStrategies>>
                 ELSE /\ last'.ret = (IF last'.apply THEN "apply" ELSE "cancel")
                      /\ \A v \in DOMAIN editStrategies \ {u} :
                             editStrategies'[v] = editStrategies[v]
                      /\ \A e \in ModelDocs \ {d} : models'[e] = models[e]
                      /\ IF last'.apply
                         THEN /\ DecorationsCleared(editStrategies'[u].diffDecorations)
                              /\ AsApplyLeaves(d, editStrategies[u].editCount > 0)
                         ELSE IF ModelIsDisposed(models[d])
                         THEN UNCHANGED <<models, editStrategies>>
                         ELSE /\ DecorationsCleared(editStrategies'[u].diffDecorations)
                              /\ AsCancelLeaves(d, textModels[u]) ]_vars

\* confirmEdits has found no strategy for a URI of document "b" while the strategy
\* of "a" has edits to accept and shows their decorations
C17_Witness ==
    /\ last.op = "confirmEdits" /\ last.ret = "not found"
    /\ UriToString(last.arg) = "b"
    /\ MapHas(editStrategies, uri("a", 1))
    /\ editStrategies[uri("a", 1)].editCount > 0
    /\ editStrategies[uri("a", 1)].diffDecorations.collection # << >>
    /\ models["a"].open

\* The locations of the ranges the strategy of URI u tracks, in the order they were
\* collected, each with the URI of the original snapshot of the pair of u
SnapshotLocations(u) ==
    [k \in 1..Len(editStrategies[u].diffDecorations.data) |->
        [ uri   |-> textModels[u].textModel0Uri,
          range |-> editStrategies[u].diffDecorations.data[k].tracking.range ]]

RECURSIVE SumOfLengths(_)
\* The number of ranges the strategies of a set of URIs track
SumOfLengths(us) ==
    IF us = {} THEN 0
    ELSE LET u == CHOOSE x \in us : TRUE
         IN  Len(editStrategies[u].diffDecorations.data) + SumOfLengths(us \ {u})

\* C18: getEditRangesInProgress(uri) returns the ranges the strategy of that URI
\* tracks, in the order they were collected, and nothing when the URI has no
\* strategy; without a URI it returns the ranges of every strategy of the registry,
\* those of one strategy together and in their order; every location carries the
\* URI of the original snapshot, which is not the URI of the live document.
C18_EditRangesOfTheStrategies ==
    last.op = "getEditRangesInProgress" =>
        /\ \A k \in 1..Len(last.ret) :
               /\ last.ret[k].uri.doc = "inmemory"
               /\ last.ret[k].uri \notin URIs
               /\ \A d \in ModelDocs : last.ret[k].uri # uri(d, 0)
        /\ IF last.arg.forUri # Undefined
           THEN IF MapHas(editStrategies, last.arg.forUri[1])
                THEN last.ret = SnapshotLocations(last.arg.forUri[1])
                ELSE last.ret = << >>
           ELSE /\ Len(last.ret) = SumOfLengths(DOMAIN editStrategies)
                /\ \A u \in DOMAIN editStrategies :
                       \E i \in 0..Len(last.ret) :
                           SubSeq(last.ret, i + 1,
                                  i + Len(editStrategies[u].diffDecorations.data))
                             = SnapshotLocations(u)

\* The ranges of all the strategies have been asked for while the strategy of "a"
\* tracks three ranges and the strategy of "b" one
C18_Witness ==
    /\ last.op = "getEditRangesInProgress"
    /\ last.arg.forUri = Undefined
    /\ Len(last.ret) = 4
    /\ MapHas(editStrategies, uri("a", 1)) /\ MapHas(editStrategies, uri("b", 1))
    /\ Len(editStrategies[uri("a", 1)].diffDecorations.data) = 3
    /\ last.ret[1].uri # last.ret[4].uri

----------------------------------------------------------------------------
(* The queue of a streaming task *)

\* The application tasks of a streaming task that have started
Started(task) == Len(task.done) + (IF task.cur.active THEN 1 ELSE 0)

\* One application task per accepted batch; the tasks have started in the order of
\* arrival, at most one is executing, each of the others is over or waits in the
\* queue in the order of arrival, none waits while none is executing, and a task
\* has applied edits of its own batch only
QueueInOrder(task) ==
    /\ Len(task.arrived) = Started(task) + Len(task.queue)
    /\ task.queue = SubSeq(task.arrived, Started(task) + 1, Len(task.arrived))
    /\ task.cur.active => task.cur.batch = task.arrived[Started(task)]
    /\ ~task.cur.active => task.queue = << >>
    /\ \A k \in 1..Len(task.done) : \A j \in 1..Len(task.done[k]) :
           \E i \in 1..Len(task.arrived[k]) : task.done[k][j] = task.arrived[k][i]

\* C19: the application tasks of one streaming task start in the order their
\* batches arrived and one at a time, whatever documents they edit: a task that is
\* executing is over only when _makeChanges returns after the render step of its
\* last edit, returns for want of an editor or throws, and only then the next one
\* starts.
C19_ApplicationTasksDoNotOverlap ==
    [][ \A t \in Tasks :
          /\ QueueInOrder(tasks'[t])
          /\ (tasks[t].cur.active /\ Len(tasks'[t].done) > Len(tasks[t].done)) =>
                 \/ /\ tasks[t].cur.phase = "rendered"
                    /\ tasks[t].cur.i = Len(tasks[t].cur.batch)
                 \/ /\ tasks[t].cur.phase = "getTextModels"
                    /\ tasks[t].cur.threw
                 \/ /\ tasks[t].cur.phase = "openCodeEditor"
                    /\ last'.op = "openCodeEditor" /\ last'.ret = "none"
          /\ (tasks[t].cur.active /\ tasks'[t].cur.active
                 /\ Len(tasks'[t].done) = Len(tasks[t].done)) =>
                 tasks'[t].cur.batch = tasks[t].cur.batch ]_vars

\* A task is revealing an edit of document "b" after an edit of "a", a task for
\* document "a" is over and another one waits in the queue
C19_Witness ==
    \E t \in Tasks :
        /\ Len(tasks[t].done) = 1 /\ tasks[t].done[1] # << >>
        /\ tasks[t].cur.active /\ tasks[t].cur.phase = "reveal"
        /\ tasks[t].cur.i = 2
        /\ UriToString(tasks[t].cur.batch[2].resource) = "b"
        /\ Len(tasks[t].queue) = 1
        /\ tasks[t].queue[1] # tasks[t].cur.batch

----------------------------------------------------------------------------
(* The undo stop before the first edit *)

\* After the step the edits of the strategy of URI u are one undo unit: the open
\* undo element of the buffer, which takes the buffer back to its content before
\* the strategy's first edit, the snapshot of the strategy's buffer pair
OneUndoUnit(u) ==
    LET m == models'[UriToString(u)]
    IN  /\ m.open
        /\ m.undo # << >>
        /\ m.undo[Len(m.undo)].content = textModels'[u].textModel0

\* The step counts an edit of the strategy of URI u
CountsEdit(u) ==
    /\ MapHas(editStrategies', u)
    /\ editStrategies'[u].editCount =
          (IF MapHas(editStrategies, u) THEN editStrategies[u].editCount ELSE 0) + 1

\* C20: a strategy pushes the undo stop once, in the call that counts its first
\* edit and before that call changes the buffer; a call that counts a later edit
\* pushes none and leaves the buffer as it is until its text is revealed; so
\* whenever a strategy has written text of an edit, all it has written so far is
\* one undo unit, the open one, which takes the buffer back to the content before
\* the strategy's first edit. The coordinator applies every edit with
\* makeProgressiveChanges, so these are the calls that interleave.
C20_UndoStopOnceBeforeFirstEdit ==
    [][ /\ \A u \in DOMAIN editStrategies' :
             LET d == UriToString(u)
                 strategy == editStrategies'[u]
             IN  /\ strategy.undoStops = (IF strategy.editCount > 0 THEN 1 ELSE 0)
                 /\ CountsEdit(u) =>
                        IF strategy.editCount = 1
                        THEN /\ ~models'[d].open
                             /\ models'[d].content = models[d].content
                             /\ models'[d].undo = models[d].undo
                        ELSE models'[d] = models[d]
        /\ \A t \in Tasks :
             Writes(t) => OneUndoUnit(tasks[t].cur.batch[tasks[t].cur.i].resource) ]_vars

----------------------------------------------------------------------------
(* The frame of the operations of the decoration tracker *)

\* The decoration pushed to the view carries the decorating style of the entry
StyleMerged(pushed, entry) ==
    \A f \in DOMAIN entry.decorating :
        f \in DOMAIN pushed.options /\ pushed.options[f] = entry.decorating[f]

\* The view holds one decoration per tracked entry, in order and with the range of
\* the entry, each with the decorating style when shown is true and with the
\* tracking options alone otherwise
ViewShows(dec, shown) ==
    /\ Len(dec.collection) = Len(dec.data)
    /\ \A k \in 1..Len(dec.data) :
          /\ dec.collection[k].range = dec.data[k].tracking.range
          /\ StyleMerged(dec.collection[k], dec.data[k]) <=> shown
          /\ ~shown => dec.collection[k].options = dec.data[k].tracking.options

\* C21: setting visible (to either value) and update() leave the list of tracked
\* ranges as it is and push one decoration per tracked range to the view, with the
\* decorating style exactly when visible is true; clear() leaves the tracked list
\* and the decorations of the view empty; collectEditOperation appends exactly one
\* entry at the end of the tracked list and does not touch the view.
C21_TrackerFrameEffects ==
    [][ LET before == last.ret
            after  == last'.ret
        IN  /\ last'.op = "set visible" =>
                  /\ after.data = before.data
                  /\ after.visible = last'.arg.value
                  /\ ViewShows(after, last'.arg.value)
            /\ last'.op = "update" =>
                  /\ after.data = before.data
                  /\ after.visible = before.visible
                  /\ ViewShows(after, before.visible)
            /\ last'.op = "clear" =>
                  /\ after.data = << >> /\ after.collection = << >>
                  /\ after.visible = before.visible
            /\ last'.op = "collectEditOperation" =>
                  /\ Len(after.data) = Len(before.data) + 1
                  /\ SubSeq(after.data, 1, Len(before.data)) = before.data
                  /\ after.data[Len(after.data)].tracking.range = last'.arg.range
                  /\ after.collection = before.collection
                  /\ after.visible = before.visible ]_vars

\* Three ranges are tracked, an empty one among them, and the tracker has just been
\* hidden: the view has the three decorations without the decorating style
C21_Witness ==
    /\ last.op = "set visible" /\ last.arg.value = FALSE
    /\ Len(last.ret.data) = 3
    /\ \E k \in 1..3 : last.ret.data[k].tracking.range = <<0, 0>>
    /\ \E k \in 1..3 : last.ret.data[k].tracking.range = <<1, 3>>
    /\ Len(last.ret.collection) = 3
    /\ \A k \in 1..3 : DOMAIN last.ret.collection[k].options = {"description"}

----------------------------------------------------------------------------
(* The rewind to a version *)

\* The alternative version id of buffer m once j of its undo elements are undone
AltAfter(m, j) == IF j = 0 THEN m.alt ELSE m.undo[Len(m.undo) - j + 1].alt

\* C22: undoChanges(targetVersion) ends after at most as many undo() calls as the
\* buffer has undo elements (every undo() bumps the version id of the buffer by
\* one); every undo() is called while the alternative version id is above the
\* target and an undo element is left; the buffer is untouched when it is at or
\* below the target already; and afterwards the buffer is at or below the target or
\* has nothing left to undo.
C22_UndoChangesStopsAtTarget ==
    [][ last'.op = "undoChanges" =>
          LET target == last'.arg.altVersionId
              m      == models["a"]
              after  == models'["a"]
              n      == after.ver - m.ver
          IN  /\ n \in 0..Len(m.undo)
              /\ after.undo = SubSeq(m.undo, 1, Len(m.undo) - n)
              /\ after.alt = AltAfter(m, n)
              /\ \A j \in 0..(n - 1) : AltAfter(m, j) > target
              /\ m.alt <= target => after = m
              /\ after.alt <= target \/ ~ModelCanUndo(after)
              /\ \A d \in ModelDocs \ {"a"} : models'[d] = models[d] ]_vars

\* undoChanges has taken the buffer back over two undo elements to the target
\* version, and an older undo element is left
C22_Witness ==
    /\ last.op = "undoChanges"
    /\ last.arg.current = 4 /\ last.arg.altVersionId = 2
    /\ models["a"].alt = 2
    /\ models["a"].ver = 6
    /\ Len(models["a"].undo) = 1

----------------------------------------------------------------------------
(* The summary recorded on the response *)

\* The hunks of a diff, none for a null diff
Hunks(diff) == IF diff = Undefined THEN << >> ELSE diff[1].changes

\* C23: _updateSummaryMessage records a summary on the response exactly when the
\* diff has at least one hunk, for the code block of the strategy and with the
\* message; its range starts at column 1 of the least start line of the hunks (in
\* the modified buffer) and ends at column 1 of their greatest end line (the line
\* after the last line of the hunk), so no hunk starts before it or ends after it.
C23_SummaryBoundsEveryHunk ==
    last.op = "_updateSummaryMessage" =>
        LET hunks == Hunks(last.arg.diff)
            rec   == last.ret.recorded
        IN  /\ (rec # Undefined) <=> (Len(hunks) > 0)
            /\ rec # Undefined =>
                 LET range == rec[1].editSummary.location.range
                 IN  /\ rec[1].codeblock = last.arg.codeblock
                     /\ rec[1].editSummary.summary = last.ret.message
                     /\ range.startColumn = 1 /\ range.endColumn = 1
                     /\ \E k \in 1..Len(hunks) :
                            range.startLineNumber = hunks[k].modified.startLineNumber
                     /\ \A k \in 1..Len(hunks) :
                            range.startLineNumber <= hunks[k].modified.startLineNumber
                     /\ \E k \in 1..Len(hunks) :
                            range.endLineNumber = hunks[k].modified.endLineNumberExclusive
                     /\ \A k \in 1..Len(hunks) :
                            range.endLineNumber >= hunks[k].modified.endLineNumberExclusive

\* A strategy of code block 1 has recorded the summary of a diff whose second hunk
\* starts before the first and ends before it: the range is that of lines 1 to 3
C23_Witness ==
    /\ last.op = "_updateSummaryMessage"
    /\ last.arg.codeblock = 1
    /\ Len(Hunks(last.arg.diff)) = 2
    /\ Hunks(last.arg.diff)[1].modified = LineRange(2, 3)
    /\ Hunks(last.arg.diff)[2].modified = LineRange(1, 1)
    /\ last.ret.recorded # Undefined
    /\ last.ret.recorded[1].editSummary.location.range.startLineNumber = 1
    /\ last.ret.recorded[1].editSummary.location.range.endLineNumber = 3

----------------------------------------------------------------------------
(* Teardown *)

\* C24: dispose() of the service clears the decorations of every strategy of the
\* registry, releases its configuration listener and leaves the registry empty; and
\* a step of an application task that was executing at the teardown (the search of
\* the editor of its edit, the reveal of its edit, the diff, the render and what
\* follows it)
\* registers no strategy and changes no buffer.
C24_TeardownIsFinal ==
    [][ /\ last'.op = "dispose" =>
              /\ editStrategies' = EmptyMap
              /\ DOMAIN last'.ret = DOMAIN editStrategies
              /\ \A u \in DOMAIN editStrategies :
                    /\ last'.ret[u].diffDecorations.data = << >>
                    /\ last'.ret[u].diffDecorations.collection = << >>
                    /\ ~last'.ret[u].subscribed
        /\ (last.op = "dispose" /\ last'.op \in {"_makeChanges", "reveal", "computeDiff", "renderChanges"}) =>
              /\ editStrategies' = EmptyMap
              /\ \A d \in ModelDocs : models'[d].content = models[d].content ]_vars

----------------------------------------------------------------------------
(* A failure in an application task *)

\* The application task of batch stopped where it should: it applied the edits
\* of the batch in order up to one it could not apply, none of a document without
\* a live buffer, and went on over every edit whose document has a live buffer and
\* a listed editor
StoppedAtFailure(applied, batch) ==
    /\ Len(applied) <= Len(batch)
    /\ applied = SubSeq(batch, 1, Len(applied))
    /\ \A k \in 1..Len(applied) : UriToString(applied[k].resource) \in ModelDocs
    /\ Len(applied) < Len(batch) => ~Applicable(batch[Len(applied) + 1])

RECURSIVE EditsOf(_, _)
\* The edits of a list that target document d, in order
EditsOf(edits, d) ==
    IF edits = << >> THEN << >>
    ELSE (IF UriToString(Head(edits).resource) = d THEN <<Head(edits)>> ELSE << >>)
         \o EditsOf(Tail(edits), d)

\* C25: in a request that is not cancelled, an application task that fails (its
\* batch names a document without a live buffer) stops nothing but itself: every
\* batch, those after the failing one too, gets its task, the tasks run in arrival
\* order and each applies its batch up to the first edit it cannot apply, so the
\* buffers end as these edits applied in order; and once the agent call has
\* returned the pending list is deleted and the promise settles, which resets the
\* markers and takes the request out of the in-flight map.
C25_FailedTaskDoesNotStopTheQueue ==
    \A t \in Tasks :
        ~tasks[t].cancelled =>
            /\ \A k \in 1..Len(tasks[t].done) :
                   StoppedAtFailure(tasks[t].done[k], tasks[t].arrived[k])
            /\ AllApplied(t) =>
                   /\ Len(tasks[t].done) = Len(tasks[t].arrived)
                   /\ \A d \in ModelDocs :
                          models[d].content =
                              ApplyAll(InitialContent, EditsOf(Flatten(tasks[t].done), d))
            /\ tasks[t].agent = "returned" =>
                   /\ ~MapHas(pendingEdits, tasks[t].sessionId)
                   /\ tasks[t].settled \/ ENABLED PromiseFinally(t)
            /\ tasks[t].settled =>
                   /\ tasks[t].agent = "returned"
                   /\ ~MapHas(pendingRequests, tasks[t].sessionId)
                   /\ editResponseIdInProgress = "" /\ editCodeblockInProgress = -1

\* The task of the first batch has failed at once (its first edit names a document
\* without a live buffer), the tasks of the two batches that came after it have
\* applied their edits, and the request has settled
C25_Witness ==
    /\ Len(tasks) = 1 /\ ~tasks[1].cancelled
    /\ AllApplied(1) /\ tasks[1].agent = "returned" /\ tasks[1].settled
    /\ Len(tasks[1].arrived) = 3 /\ Len(tasks[1].done) = 3
    /\ UriToString(tasks[1].arrived[1][1].resource) = "n"
    /\ tasks[1].done[1] = << >>
    /\ tasks[1].done[2] # << >> /\ tasks[1].done[3] # << >>
    /\ tasks[1].arrived[2] # tasks[1].arrived[3]
    /\ models["a"].content # InitialContent

----------------------------------------------------------------------------
(* The in-progress markers *)

\* The streaming tasks whose promise has not settled, of any session
AllInFlight == {t \in Tasks : ~tasks[t].settled}

\* C26: in every state, when a request is in flight both markers are set and are
\* the response id and the code-block index of a request that is in flight, and
\* when no request is in flight both markers are reset.
C26_MarkersNameAnInFlightRequest ==
    IF AllInFlight # {}
    THEN \E t \in AllInFlight :
            /\ editResponseIdInProgress = tasks[t].id
            /\ editCodeblockInProgress = tasks[t].codeBlockIndex
    ELSE editResponseIdInProgress = "" /\ editCodeblockInProgress = -1

\* C27: every strategy of the registry was created with a defined code-block index,
\* the one of the request whose batch caused the creation, also when the agent call
\* had returned before the application task ran.
C27_StrategyBoundToItsRequest ==
    \A u \in DOMAIN editStrategies :
        editStrategies[u].editCodeblockInProgress =
            Some(tasks[editStrategies[u].task].codeBlockIndex)

----------------------------------------------------------------------------
(* The cleanup of a cancelled request *)

\* The step is the end of the agent call of streaming task t, whose promise had
\* settled before (the request was cancelled), while a later request of the same
\* session is in flight
LateTermination(t) ==
    /\ tasks[t].agent = "running" /\ tasks'[t].agent = "returned"
    /\ tasks[t].settled
    /\ InFlight(tasks[t].sessionId) # {}

\* C28: when the agent call of a cancelled request ends while a later request of
\* its session is in flight, the pending list of the session stays as it is when it
\* holds batches of the later request, and the in-flight map and both markers stay
\* as they are.
C28_CleanupTouchesOwnStateOnly ==
    [][ \A t \in Tasks :
          LateTermination(t) =>
              /\ (\E n \in InFlight(tasks[t].sessionId) : tasks[n].arrived # << >>) =>
                     /\ MapHas(pendingEdits', tasks[t].sessionId)
                     /\ pendingEdits'[tasks[t].sessionId] =
                            pendingEdits[tasks[t].sessionId]
              /\ UNCHANGED <<pendingRequests, editResponseIdInProgress,
                             editCodeblockInProgress>> ]_vars

----------------------------------------------------------------------------
(* The visibility of the decorations *)

\* C29: in every state, whatever configuration changes that affect the option have
\* been notified, the decorations of every strategy of the registry are visible
\* exactly when the option inlineChat.showDiff is true.
C29_VisibleFollowsConfiguration ==
    \A u \in DOMAIN editStrategies :
        editStrategies[u].diffDecorations.visible = showDiff

----------------------------------------------------------------------------
(* The code graph loaded from the storage *)

\* The stored symbol is of a tracked file and has the hash the file has now
UpToDate(symbol, filesToTrack) ==
    /\ SetHas(filesToTrack, symbol.fsFilePath)
    /\ symbol.fileHash = FileContentHash[symbol.fsFilePath]

\* C30: after loadFromStorage(filesToTrack) the nodes of the graph hold every stored
\* symbol of a tracked file whose stored hash is the hash of the file now and no
\* other stored symbol, and the files returned are the tracked files that have no
\* stored symbol with the hash of the file now.
C30_LoadKeepsUpToDateSymbols ==
    (last.op = "loadFromStorage" /\ last.ret.settled = "resolved") =>
        LET stored == last.arg.stored
            filesToTrack == last.arg.filesToTrack
        IN  /\ \A k \in 1..Len(stored) :
                   SetHas(last.ret.nodes, stored[k]) <=> UpToDate(stored[k], filesToTrack)
            /\ \A f \in DOMAIN FileContentHash :
                   SetHas(last.ret.files, f) <=>
                       /\ SetHas(filesToTrack, f)
                       /\ ~\E k \in 1..Len(stored) :
                              stored[k].fsFilePath = f /\ UpToDate(stored[k], filesToTrack)

====
